---- MODULE Spec2Model ----
(***************************************************************************)
(* A model of architector's calculation executor (io_calc.CalcExecutor)   *)
(* and of the ligand/core symmetry enumerator (io_symmetry.select_cons).   *)
(*                                                                         *)
(* Spec    : one construction of a CalcExecutor, __init__ followed by      *)
(*           calculate(), stepped through the blocks of calculate().       *)
(* SpecSym : one call of select_cons, stepped through its phases.          *)
(* SpecNeb : one call of io_neb.NEB_setup, which constructs a CalcExecutor *)
(*           for every image of the path.                                  *)
(* SpecVib : one call of vibrations_free_energy.vibration_analysis.        *)
(***************************************************************************)
EXTENDS Integers, Sequences, FiniteSets, TLC

(***************************************************************************)
(* Bounds of the model.                                                    *)
(***************************************************************************)
\* How many arguments / override keys / structure features of one call
\* differ from the call CalcExecutor(structure) or
\* CalcExecutor(structure, parameters=<library defaults>).
MaxDeviations == 3
\* Atoms of the structure handed to the executor.
NAtoms == 2
\* Frames a captured optimizer trajectory may hold.
MaxTrajLen == 2
\* Largest nimages of a call of NEB_setup.
MaxImages == 4
\* The wall-clock reading when the constructor starts.
StartTime == 5

(***************************************************************************)
(* Python's None and a present value.                                      *)
(***************************************************************************)
None == << >>
Some(x) == << x >>
Val(o) == o[1]

(***************************************************************************)
(* io_calc.py: the library defaults `params` (the options the executor     *)
(* consumes).                                                              *)
(***************************************************************************)
params ==
  [ save_trajectories      |-> FALSE,
    dump_ase_atoms         |-> FALSE,
    assemble_sanity_checks |-> TRUE,
    calculator_kwargs      |-> "{}",
    ase_opt_kwargs         |-> "{}",
    full_method            |-> "GFN2-xTB",
    assemble_method        |-> "GFN2-xTB",
    override_oxo_opt       |-> FALSE,
    force_generation       |-> FALSE,
    species_run            |-> FALSE ]

(***************************************************************************)
(* The calls of the constructor the model draws.  A call is described by   *)
(* a base (`parameters` empty, or `parameters` holding every library key   *)
(* at its default) and a set of deviations from it.                        *)
(***************************************************************************)
ArgDeviations ==
  { "assembly", "species_run", "intermediate=rotation", "intermediate=main",
    "ff_preopt_run", "relax", "init_sanity_check", "final_sanity_check",
    "skip_spin_assign", "method=UFF", "method=custom", "method=DFT",
    "calculator" }

\* A deviation named by a key toggles the key's presence in `parameters`
\* (added at its default value to the empty base, removed from the full one).
ToggleDeviations ==
  { "assemble_method", "full_method", "override_oxo_opt",
    "calculator_kwargs", "ase_opt_kwargs" }

\* A deviation key=value puts the key in `parameters` with that value.
ValueDeviations ==
  { "assemble_method=UFF", "assemble_method=GFN1-xTB", "full_method=UFF",
    "override_oxo_opt=True", "force_generation=True", "force_oxo_relax=True",
    "assemble_sanity_checks=False", "save_trajectories=True",
    "dump_ase_atoms=True", "freeze_molecule_add_species=True",
    "species_params" }

RECURSIVE UpTo(_, _)
\* The subsets of S with at most k elements.
UpTo(S, k) ==
  IF k = 0 THEN { {} }
  ELSE LET prev == UpTo(S, k - 1)
       IN  prev \cup { p \cup {x} : p \in prev, x \in S }

SetKeys(d) ==
  CASE d = "assemble_method=UFF"            -> { "assemble_method" }
    [] d = "assemble_method=GFN1-xTB"       -> { "assemble_method" }
    [] d = "full_method=UFF"                -> { "full_method" }
    [] d = "override_oxo_opt=True"          -> { "override_oxo_opt" }
    [] d = "force_generation=True"          -> { "force_generation" }
    [] d = "force_oxo_relax=True"           -> { "force_oxo_relax" }
    [] d = "assemble_sanity_checks=False"   -> { "assemble_sanity_checks" }
    [] d = "save_trajectories=True"         -> { "save_trajectories", "ase_db" }
    [] d = "dump_ase_atoms=True"            -> { "dump_ase_atoms", "ase_db" }
    [] d = "freeze_molecule_add_species=True" -> { "freeze_molecule_add_species" }
    [] d = "species_params"                 ->
        { "species_method", "species_relax",
          "species_intermediate_method", "species_intermediate_relax" }
    [] OTHER                                -> {}

\* The keys of the `parameters` mapping of a call.
CallKeys(base, devs) ==
  LET start   == IF base = "full" THEN DOMAIN params ELSE {}
      toggled == devs \cap ToggleDeviations
      forced  == UNION { SetKeys(d) : d \in devs }
  IN  ((start \ toggled) \cup (toggled \ start)) \cup forced

\* The values `parameters` holds (read only for the keys of CallKeys).
CallVals(devs) ==
  [ save_trajectories      |-> "save_trajectories=True" \in devs,
    dump_ase_atoms         |-> "dump_ase_atoms=True" \in devs,
    assemble_sanity_checks |-> ~ ("assemble_sanity_checks=False" \in devs),
    calculator_kwargs      |-> "{}",
    ase_opt_kwargs         |-> "{}",
    full_method            |-> IF "full_method=UFF" \in devs THEN "UFF"
                               ELSE "GFN2-xTB",
    assemble_method        |-> IF "assemble_method=UFF" \in devs THEN "UFF"
                               ELSE IF "assemble_method=GFN1-xTB" \in devs
                                    THEN "GFN1-xTB" ELSE "GFN2-xTB",
    override_oxo_opt       |-> "override_oxo_opt=True" \in devs,
    force_generation       |-> "force_generation=True" \in devs,
    species_run            |-> FALSE,
    force_oxo_relax        |-> TRUE,
    freeze_molecule_add_species |-> TRUE,
    ase_db                 |-> "db",
    species_method         |-> "GFN2-xTB",
    species_relax          |-> TRUE,
    species_intermediate_method |-> "GFN-FF",
    species_intermediate_relax  |-> FALSE ]

\* The original coordinates of the structure: atom i sits at its input place.
InputPositions == [ i \in 1..NAtoms |-> "in" ]

\* One call CalcExecutor(structure, parameters, ...).
MkCall(base, devs) ==
  [ pkeys              |-> CallKeys(base, devs),
    pvals              |-> CallVals(devs),
    init_sanity_check  |-> "init_sanity_check" \in devs,
    final_sanity_check |-> "final_sanity_check" \in devs,
    relax              |-> "relax" \in devs,
    assembly           |-> "assembly" \in devs,
    method             |-> IF "method=UFF" \in devs THEN "UFF"
                           ELSE IF "method=custom" \in devs THEN "custom"
                           ELSE IF "method=DFT" \in devs THEN "DFT"
                           ELSE "GFN2-xTB",
    ff_preopt_run      |-> "ff_preopt_run" \in devs,
    species_run        |-> "species_run" \in devs,
    intermediate       |-> IF "intermediate=rotation" \in devs THEN "rotation"
                           ELSE IF "intermediate=main" \in devs THEN "main"
                           ELSE "False",
    skip_spin_assign   |-> "skip_spin_assign" \in devs,
    calculator         |-> "calculator" \in devs,
    positions          |-> InputPositions,
    sep                |-> IF "sep>assemble_min_dist_cutoff" \in devs
                           THEN "beyond_assemble"
                           ELSE IF "sep>full_min_dist_cutoff" \in devs
                                THEN "beyond_full" ELSE "bonded" ]

Calls ==
  { MkCall(base, devs) : base \in { "empty", "full" },
                         devs \in UpTo(
                           ArgDeviations \cup ToggleDeviations
                           \cup ValueDeviations
                           \* the separation of the most isolated atom
                           \* from every other atom
                           \cup { "sep>full_min_dist_cutoff",
                                  "sep>assemble_min_dist_cutoff" },
                           MaxDeviations) }


(***************************************************************************)
(* State.                                                                  *)
(*   call   : the arguments of the constructor call being executed         *)
(*   exec   : the CalcExecutor object's attributes                         *)
(*   mol    : exec.mol, the working structure                              *)
(*   pc     : the block of __init__ / calculate() about to run             *)
(*   exc    : the exception that left the constructor ("" when none did)   *)
(*   events : what the construction has done so far, in order              *)
(*   db     : the writes made to parameters['ase_db'], in order            *)
(*   now    : the reading of time.time()                                   *)
(*   evaluated : the coordinates exec.mol held when evaluation ended       *)
(***************************************************************************)
VARIABLES call, exec, mol, pc, exc, events, db, now, evaluated

execVars == << call, exec, mol, pc, exc, events, db, now, evaluated >>

(***************************************************************************)
(* State of one call of select_cons.                                       *)
(*   symcall : the arguments (coreType, ligInputDicts, the params read)    *)
(*   newLigInputDicts, selected_con_lists, denticities, goods, good_combos,*)
(*   out_combos, out_energies, out_liglists, good : the locals of that     *)
(*             name                                                        *)
(*   inverse : inverse_needed, inv_dicts and inv_inds                      *)
(*   sympc   : the step of select_cons about to run                        *)
(*   symexc  : the exception that left select_cons ("" when none did)      *)
(***************************************************************************)
VARIABLES symcall, newLigInputDicts, selected_con_lists, denticities, goods,
          inverse, good_combos, out_combos, out_energies, out_liglists, good,
          sympc, symexc

symVars == << symcall, newLigInputDicts, selected_con_lists, denticities,
              goods, inverse, good_combos, out_combos, out_energies,
              out_liglists, good, sympc, symexc >>

\* No call of select_cons is under way.
SymIdle ==
  /\ symcall = None
  /\ newLigInputDicts = None
  /\ selected_con_lists = None
  /\ denticities = None
  /\ goods = None
  /\ inverse = None
  /\ good_combos = None
  /\ out_combos = None
  /\ out_energies = None
  /\ out_liglists = None
  /\ good = FALSE
  /\ sympc = "idle"
  /\ symexc = ""

(***************************************************************************)
(* State of one call of NEB_setup.                                         *)
(*   nebcall    : the arguments (nimages, neb_method)                      *)
(*   images     : neb.images, the geometry of every image                  *)
(*   neb_images : the local of that name, the evaluated images             *)
(*   runs       : for every CalcExecutor constructed, what it did          *)
(*   nebpc      : the step of NEB_setup about to run                       *)
(***************************************************************************)
VARIABLES nebcall, images, neb_images, runs, nebpc

nebVars == << nebcall, images, neb_images, runs, nebpc >>

\* No call of NEB_setup is under way.
NebIdle ==
  /\ nebcall = None
  /\ images = None
  /\ neb_images = None
  /\ runs = None
  /\ nebpc = "idle"

(***************************************************************************)
(* State of one call of vibration_analysis.                                *)
(*   vibcall     : the arguments (the atoms' masses, hess, mode_type)      *)
(*   mweight_H   : the mass-weighted Hessian                               *)
(*   eig_values  : its eigenvalues                                         *)
(*   frequencies : the frequencies in wavenumbers                          *)
(*   vibpc       : the step about to run                                   *)
(*   vibexc      : the exception that left the call, "" when none          *)
(***************************************************************************)
VARIABLES vibcall, mweight_H, eig_values, frequencies, vibpc, vibexc

vibVars == << vibcall, mweight_H, eig_values, frequencies, vibpc, vibexc >>

\* No call of vibration_analysis is under way.
VibIdle ==
  /\ vibcall = None
  /\ mweight_H = None
  /\ eig_values = None
  /\ frequencies = None
  /\ vibpc = "idle"
  /\ vibexc = ""

Has(c, k) == k \in c.pkeys

\* io_calc.py 144-147: default_params = params.copy(); .update(parameters).
\* freeze_molecule_add_species is read with .get(key, False).
MergedParameters(c) ==
  [ save_trajectories      |-> IF Has(c, "save_trajectories")
                               THEN c.pvals.save_trajectories
                               ELSE params.save_trajectories,
    dump_ase_atoms         |-> IF Has(c, "dump_ase_atoms")
                               THEN c.pvals.dump_ase_atoms
                               ELSE params.dump_ase_atoms,
    assemble_sanity_checks |-> IF Has(c, "assemble_sanity_checks")
                               THEN c.pvals.assemble_sanity_checks
                               ELSE params.assemble_sanity_checks,
    full_method            |-> IF Has(c, "full_method")
                               THEN c.pvals.full_method
                               ELSE params.full_method,
    assemble_method        |-> IF Has(c, "assemble_method")
                               THEN c.pvals.assemble_method
                               ELSE params.assemble_method,
    override_oxo_opt       |-> IF Has(c, "override_oxo_opt")
                               THEN c.pvals.override_oxo_opt
                               ELSE params.override_oxo_opt,
    calculator_kwargs      |-> IF Has(c, "calculator_kwargs")
                               THEN c.pvals.calculator_kwargs
                               ELSE params.calculator_kwargs,
    ase_opt_kwargs         |-> IF Has(c, "ase_opt_kwargs")
                               THEN c.pvals.ase_opt_kwargs
                               ELSE params.ase_opt_kwargs,
    force_generation       |-> IF Has(c, "force_generation")
                               THEN c.pvals.force_generation
                               ELSE params.force_generation,
    freeze_molecule_add_species |-> Has(c, "freeze_molecule_add_species")
                                    /\ c.pvals.freeze_molecule_add_species,
    ase_db                 |-> Has(c, "ase_db") ]

\* io_calc.py 141-167: the arguments bound to attributes.  An attribute that
\* only the setattr loop can create is None (absent) until then.
BoundAttributes(c) ==
  [ method             |-> c.method,
    parameters         |-> MergedParameters(c),
    init_sanity_check  |-> c.init_sanity_check,
    final_sanity_check |-> c.final_sanity_check,
    calculator         |-> c.calculator,
    relax              |-> c.relax,
    assembly           |-> c.assembly,
    ff_preopt_run      |-> c.ff_preopt_run,
    species_run        |-> c.species_run,
    skip_spin_assign   |-> c.skip_spin_assign,
    force_generation   |-> FALSE,
    force_oxo_relax    |-> FALSE,
    assemble_method    |-> None,
    full_method        |-> None,
    override_oxo_opt   |-> None,
    calculator_kwargs  |-> None,
    ase_opt_kwargs     |-> None,
    species_method     |-> None,
    species_relax      |-> None,
    species_intermediate_method |-> None,
    species_intermediate_relax  |-> None,
    energy             |-> None,
    init_energy        |-> None,
    errors             |-> << >>,
    successful         |-> FALSE,
    trajectory         |-> None,
    rmsd               |-> None,
    calc_time          |-> None,
    done               |-> FALSE ]

\* The attribute key as the setattr loop leaves it: set when `parameters`
\* holds the key, otherwise whatever it was.
Promoted(c, e, k) == IF Has(c, k) THEN Some(c.pvals[k]) ELSE e[k]

\* io_calc.py 168-170: every key of `parameters` becomes an attribute.
SetAttrs(c, e) ==
  [ e EXCEPT
      !.force_generation  = IF Has(c, "force_generation")
                            THEN c.pvals.force_generation ELSE @,
      !.force_oxo_relax   = IF Has(c, "force_oxo_relax")
                            THEN c.pvals.force_oxo_relax ELSE @,
      !.species_run       = IF Has(c, "species_run")
                            THEN c.pvals.species_run ELSE @,
      !.assemble_method   = Promoted(c, e, "assemble_method"),
      !.full_method       = Promoted(c, e, "full_method"),
      !.override_oxo_opt  = Promoted(c, e, "override_oxo_opt"),
      !.calculator_kwargs = Promoted(c, e, "calculator_kwargs"),
      !.ase_opt_kwargs    = Promoted(c, e, "ase_opt_kwargs"),
      !.species_method    = Promoted(c, e, "species_method"),
      !.species_relax     = Promoted(c, e, "species_relax"),
      !.species_intermediate_method =
                            Promoted(c, e, "species_intermediate_method"),
      !.species_intermediate_relax  =
                            Promoted(c, e, "species_intermediate_relax") ]

\* Reading self.<k>: an absent attribute raises AttributeError.
Missing(e, ks) == \E k \in ks : e[k] = None

\* The first absent attribute the branch reads (species_method is read
\* before the species relax flags).
FirstMissing(e, ks) ==
  IF "species_method" \in ks /\ e.species_method = None
  THEN "species_method"
  ELSE CHOOSE k \in ks : e[k] = None

\* io_calc.py 172-198: the attributes the taken branch reads.
ResolveReads(c, e) ==
  IF c.assembly THEN { "assemble_method" }
  ELSE IF c.species_run
       THEN IF c.intermediate = "rotation"
            THEN { "species_intermediate_method" }
            ELSE IF c.intermediate = "main"
                 THEN { "species_method", "species_intermediate_relax" }
                 ELSE { "species_method", "species_relax" }
  ELSE IF c.pkeys # {} /\ ~ e.ff_preopt_run THEN { "full_method" }
  ELSE {}

\* A resolution whose assembly branch leaves relax as the caller gave it.
ResolveMethod_KeepRelax(c, e) ==
  IF c.assembly
  THEN [ e EXCEPT !.init_sanity_check = TRUE,
                  !.method = Val(e.assemble_method) ]
  ELSE e

\* io_calc.py 172-198: method resolution (no read of it fails).
ResolveMethod(c, e) ==
  IF c.assembly
  THEN [ e EXCEPT !.init_sanity_check = TRUE,
                  !.relax = FALSE,
                  !.method = Val(e.assemble_method) ]
  ELSE IF c.species_run
       THEN IF c.intermediate = "rotation"
            THEN [ e EXCEPT !.method = Val(e.species_intermediate_method),
                            !.relax = FALSE ]
            ELSE IF c.intermediate = "main"
                 THEN [ e EXCEPT !.method = Val(e.species_method),
                                 !.relax = Val(e.species_intermediate_relax),
                                 !.force_oxo_relax = TRUE ]
                 ELSE [ e EXCEPT !.method = Val(e.species_method),
                                 !.relax = Val(e.species_relax) ]
  ELSE IF c.pkeys # {}
       THEN IF e.ff_preopt_run
            THEN [ e EXCEPT !.method = "UFF", !.relax = TRUE ]
            ELSE [ e EXCEPT !.method = Val(e.full_method) ]
  ELSE IF e.ff_preopt_run
       THEN [ e EXCEPT !.method = "UFF", !.relax = TRUE ]
       ELSE e

\* io_calc.py 209-217: the output properties; calc_time holds the start time.
OutputProperties(e, t) ==
  [ e EXCEPT !.energy = None, !.init_energy = None, !.errors = << >>,
             !.successful = FALSE, !.trajectory = None, !.rmsd = None,
             !.calc_time = Some(t), !.done = FALSE ]

\* io_molecule.convert_io_molecule(structure): a fresh structure holding
\* the input's coordinates, nothing attached, not yet flagged insane.
convert_io_molecule(c) ==
  [ positions  |-> c.positions,
    dists_sane |-> TRUE,
    calc       |-> None,
    constraint |-> FALSE,
    charges    |-> "unset",
    spin       |-> "input",
    mismatch   |-> FALSE ]


(***************************************************************************)
(* The boundary of calculate(): what the structure, the engines and the    *)
(* optimizer can answer.                                                   *)
(***************************************************************************)
\* io_calc.py 315-316, 337-338: the energy recorded when the engine failed.
SentinelEnergy == 10000

IsCustom(m) == m = "custom"
IsGfn(m)    == m \in { "GFN2-xTB", "GFN1-xTB", "GFN-FF" }
IsFF(m)     == m \in { "UFF", "MMFF" }

\* mol.dist_sanity_checks(assembly=...) on the input geometry: the assembly
\* cutoffs (assemble_min_dist_cutoff = 4) are looser than the full ones
\* (full_min_dist_cutoff = 3.5).
InputSane(c, asm) ==
  IF asm THEN c.sep # "beyond_assemble" ELSE c.sep = "bonded"

\* The verdicts the checks can give: fixed by the geometry while it is the
\* input's, open once the atoms have moved.
SaneOutcomes(c, m, asm) ==
  IF m.positions = c.positions THEN { InputSane(c, asm) } ELSE BOOLEAN

\* The coordinates an optimization can leave the atoms with.
RelaxedPositions == [ 1..NAtoms -> { "in", "moved", "nan", "inf" } ]

\* mol.ase_atoms.get_total_energy() with an engine attached.
get_total_energy(pos) == IF pos = InputPositions THEN 0 - 10 ELSE 0 - 12
\* io_obabel.obmol_energy(mol).
obmol_energy(pos) == IF pos = InputPositions THEN 3 ELSE 2

\* A guard that fires only when every coordinate is NaN.
HasNan_All(pos) == \A i \in DOMAIN pos : pos[i] = "nan"

\* io_calc.py 387: np.any(np.isnan(positions)).
HasNan(pos) == \E i \in DOMAIN pos : pos[i] = "nan"

MinDistMessage == "Min dist checks failed. Not evaluated"

NoException == [ type |-> "", attr |-> "" ]

\* An exception leaves the constructor; attr names the attribute whose read
\* failed when it is an AttributeError.
Raise(type, attr) ==
  /\ pc' = "raised"
  /\ exc' = [ type |-> type, attr |-> attr ]

\* An order in which the final checks run before the fallback.
Successor_ChecksBeforeFallback(block) ==
  CASE block = "engine_protocol" -> "post"
    [] block = "ff_protocol"     -> "post"
    [] block = "post"            -> "fallback"
    [] block = "fallback"        -> "persist"
    [] block = "persist"         -> "done"

\* io_calc.py 220-397: the order of the blocks of calculate().
Successor(block) ==
  CASE block = "engine_protocol" -> "fallback"
    [] block = "ff_protocol"     -> "fallback"
    [] block = "fallback"        -> "post"
    [] block = "post"            -> "persist"
    [] block = "persist"         -> "done"

(***************************************************************************)
(* __init__, io_calc.py 168-218.                                           *)
(***************************************************************************)
CalcExecutor_init ==
  /\ pc = "init"
  /\ now' = now + 1
  /\ LET e1 == SetAttrs(call, exec)
     IN  IF Missing(e1, ResolveReads(call, e1))
         THEN /\ Raise("AttributeError",
                       FirstMissing(e1, ResolveReads(call, e1)))
              /\ exec' = e1
         ELSE /\ exec' = OutputProperties(ResolveMethod(call, e1), now)
              /\ pc' = "calculate"
              /\ exc' = exc
  /\ UNCHANGED << call, mol, events, db, evaluated >>

(***************************************************************************)
(* calculate(), io_calc.py 221-226 and 378-379: the pre-evaluation gate.   *)
(***************************************************************************)
\* The pre-evaluation checks keyed on final_sanity_check instead.
InitChecksRun_FinalFlag(e) ==
  e.final_sanity_check /\ e.parameters.assemble_sanity_checks

\* io_calc.py 221: the pre-evaluation checks run.
InitChecksRun(e) == e.init_sanity_check /\ e.parameters.assemble_sanity_checks

\* A gate that lets every structure through.
GateOpen_Always(m) == TRUE

\* io_calc.py 224: evaluation goes ahead.
GateOpen(m) == m.dists_sane

\* io_calc.py 225: the spin is (re)assigned before engine selection.

SpinAssigned(e) == (~ e.species_run) /\ (~ e.skip_spin_assign)

Gate ==
  /\ pc = "calculate"
  /\ now' = now + 1
  /\ \E sane \in ( IF InitChecksRun(exec)
                   THEN SaneOutcomes(call, mol, exec.assembly)
                   ELSE { mol.dists_sane } ) :
       LET ev1 == IF InitChecksRun(exec)
                  THEN Append(events, "init_check") ELSE events
       IN  IF GateOpen([ mol EXCEPT !.dists_sane = sane ])
           THEN /\ mol' = [ mol EXCEPT !.dists_sane = sane,
                              !.spin = IF SpinAssigned(exec)
                                       THEN "suggested" ELSE @ ]
                /\ events' = IF SpinAssigned(exec)
                             THEN Append(ev1, "spin") ELSE ev1
                /\ exec' = exec
                /\ pc' = "select"
           ELSE /\ mol' = [ mol EXCEPT !.dists_sane = sane ]
                /\ events' = ev1
                /\ exec' = [ exec EXCEPT
                               !.errors = Append(@, MinDistMessage) ]
                /\ pc' = "post"
  /\ UNCHANGED << call, exc, db, evaluated >>

(***************************************************************************)
(* calculate(), io_calc.py 227-269: engine selection.                      *)
(***************************************************************************)
\* io_calc.py 252: relaxation is switched off under a charge mismatch.
NoRelaxOnMismatch(e) ==
  ((~ Val(e.override_oxo_opt)) \/ e.assembly) /\ (~ e.force_oxo_relax)

\* io_calc.py 251-255.
OnMismatch(e) ==
  IF NoRelaxOnMismatch(e) THEN [ e EXCEPT !.relax = FALSE ]
  ELSE IF e.assembly THEN [ e EXCEPT !.method = "GFN-FF" ]
  ELSE e

SelectCustom ==
  /\ exec.calculator /\ IsCustom(exec.method)
  /\ IF exec.calculator_kwargs = None
     THEN /\ Raise("AttributeError", "calculator_kwargs")
          /\ UNCHANGED << exec, mol, events >>
     ELSE \E built \in BOOLEAN :
            IF ~ built
            THEN /\ Raise("CalculatorError", "")
                 /\ UNCHANGED << exec, mol, events >>
            ELSE /\ mol' = [ mol EXCEPT
                               !.charges = "formal",
                               !.calc = Some([ kind |-> "custom",
                                               method |-> exec.method ]) ]
                 /\ events' = Append(events, "select")
                 /\ exec' = exec
                 /\ pc' = "engine_protocol"
                 /\ exc' = exc

SelectXTB ==
  /\ ~ (exec.calculator /\ IsCustom(exec.method))
  /\ IsGfn(exec.method)
  /\ \E mismatch \in BOOLEAN :
       IF mismatch /\ exec.override_oxo_opt = None
       THEN /\ Raise("AttributeError", "override_oxo_opt")
            /\ UNCHANGED << exec, events >>
            /\ mol' = [ mol EXCEPT !.mismatch = mismatch ]
       ELSE LET e1 == IF mismatch THEN OnMismatch(exec) ELSE exec
            IN  /\ exec' = e1
                /\ mol' = [ mol EXCEPT
                              !.mismatch = mismatch,
                              !.charges = IF e1.method # "GFN-FF"
                                          THEN "xtb" ELSE "zeros",
                              !.calc = Some([ kind |-> "XTB",
                                              method |-> exec.method ]) ]
                /\ events' = Append(events, "select")
                /\ pc' = "engine_protocol"
                /\ exc' = exc

SelectFF ==
  /\ ~ (exec.calculator /\ IsCustom(exec.method))
  /\ ~ IsGfn(exec.method)
  /\ IsFF(exec.method)
  /\ events' = Append(events, "select")
  /\ pc' = "ff_protocol"
  /\ UNCHANGED << exec, mol, exc >>

SelectUnknown ==
  /\ ~ (exec.calculator /\ IsCustom(exec.method))
  /\ ~ IsGfn(exec.method)
  /\ ~ IsFF(exec.method)
  /\ Raise("ValueError", "")
  /\ UNCHANGED << exec, mol, events >>

SelectEngine ==
  /\ pc = "select"
  /\ now' = now + 1
  /\ (SelectCustom \/ SelectXTB \/ SelectFF \/ SelectUnknown)
  /\ UNCHANGED << call, db, evaluated >>


(***************************************************************************)
(* calculate(), io_calc.py 270-339: the attached-engine protocols.         *)
(***************************************************************************)
\* An executor that never freezes the first component.
FreezeFirst_Never(e) == FALSE

\* io_calc.py 271: the first component is frozen for the optimization.
FreezeFirst(e) ==
  e.parameters.freeze_molecule_add_species /\ ~ IsCustom(e.method)

\* A handler that records the error but no sentinel energies (as the
\* force-field protocol's handlers do).
EngineFailed_NoSentinel(e, err, t) ==
  [ e EXCEPT !.errors = Append(@, err),
             !.calc_time = Some(t - Val(@)) ]

\* io_calc.py 308-317 and 330-339: the handler of a failed engine call.
EngineFailed(e, err, t) ==
  [ e EXCEPT !.errors = Append(@, err),
             !.energy = Some(SentinelEnergy),
             !.init_energy = Some(SentinelEnergy),
             !.calc_time = Some(t - Val(@)) ]

\* io_calc.py 299-307: the optimizer ran and every later call succeeded.
RelaxSucceeded(e, pos, frames, t) ==
  [ e EXCEPT !.init_energy = Some(get_total_energy(InputPositions)),
             !.trajectory = IF e.parameters.save_trajectories
                            THEN Some(frames) ELSE @,
             !.energy = Some(get_total_energy(pos)),
             !.rmsd = Some("rmsd"),
             !.calc_time = Some(t - Val(@)),
             !.successful = TRUE ]

EngineRelax ==
  /\ exec.relax
  \* The try block of io_calc.py 279-307 can fail at the first energy, at
  \* the optimizer's construction or run, at the energy read after it, or
  \* go through.
  /\ \E stage \in { "init_energy", "optimizer", "final_energy", "ok" },
        pos \in RelaxedPositions,
        frames \in 1..MaxTrajLen :
       \* nothing moves before the optimizer runs
       /\ (stage = "init_energy" \/ exec.ase_opt_kwargs = None)
             => pos = mol.positions
       /\ (~ exec.parameters.save_trajectories
             \/ stage \in { "init_energy", "optimizer" }
             \/ exec.ase_opt_kwargs = None) => frames = 1
       /\ LET frozen == FreezeFirst(exec)
              ev1 == IF frozen THEN Append(events, "set_constraint")
                     ELSE events
              ev2 == Append(ev1, "relax")
                     \o ( IF stage = "init_energy" THEN << "engine_raised" >>
                          ELSE IF exec.ase_opt_kwargs = None
                          THEN << "attribute_error" >>
                          ELSE IF stage = "ok" THEN << >>
                          ELSE << "engine_raised" >> )
              ev3 == IF exec.parameters.freeze_molecule_add_species
                     THEN Append(ev2, "remove_constraint") ELSE ev2
              held == IF exec.parameters.freeze_molecule_add_species
                      THEN FALSE ELSE frozen
          IN  /\ events' = ev3
              /\ mol' = [ mol EXCEPT !.positions = pos,
                                     !.constraint = held ]
              /\ IF stage = "init_energy"
                 THEN exec' = EngineFailed(exec, "EngineError", now)
                 ELSE IF exec.ase_opt_kwargs = None
                 THEN exec' = EngineFailed(
                        [ exec EXCEPT !.init_energy =
                            Some(get_total_energy(InputPositions)) ],
                        "AttributeError", now)
                 ELSE IF stage = "optimizer"
                 THEN exec' = EngineFailed(exec, "OptimizerError", now)
                 ELSE IF stage = "final_energy"
                 THEN exec' = EngineFailed(
                        [ exec EXCEPT !.trajectory =
                            IF exec.parameters.save_trajectories
                            THEN Some(frames) ELSE @ ],
                        "EngineError", now)
                 ELSE exec' = RelaxSucceeded(exec, pos, frames, now)

\* io_calc.py 324-339.
EngineSinglePoint ==
  /\ ~ exec.relax
  /\ \E ok \in BOOLEAN :
       /\ exec' = IF ok
                  THEN [ exec EXCEPT
                           !.energy = Some(get_total_energy(mol.positions)),
                           !.init_energy =
                               Some(get_total_energy(mol.positions)),
                           !.successful = TRUE ]
                  ELSE EngineFailed(exec, "EngineError", now)
       /\ events' = Append(events, "energy")
                    \o ( IF ok THEN << >> ELSE << "engine_raised" >> )
       /\ mol' = mol

EngineProtocol ==
  /\ pc = "engine_protocol"
  /\ now' = now + 1
  /\ (EngineRelax \/ EngineSinglePoint)
  /\ pc' = Successor("engine_protocol")
  /\ UNCHANGED << call, exc, db, evaluated >>

(***************************************************************************)
(* calculate(), io_calc.py 340-366: the force-field protocol.              *)
(***************************************************************************)

FFRelax ==
  /\ exec.relax
  \* The try block of io_calc.py 342-353 can fail at the first energy, in
  \* the optimization, in the alignment after it, or go through.
  /\ \E stage \in { "init_energy", "optimizer", "align", "ok" },
        pos \in RelaxedPositions :
       /\ stage \in { "init_energy", "optimizer" } => pos = mol.positions
       /\ mol' = [ mol EXCEPT !.positions = pos ]
       /\ events' = Append(events, "ff_relax")
       /\ exec' =
            IF stage = "init_energy"
            THEN [ exec EXCEPT !.errors = Append(@, "FFError") ]
            ELSE IF stage = "optimizer"
            THEN [ exec EXCEPT
                     !.init_energy = Some(obmol_energy(InputPositions)),
                     !.errors = Append(@, "FFError") ]
            ELSE [ exec EXCEPT
                     !.init_energy = Some(obmol_energy(InputPositions)),
                     !.successful = TRUE,
                     !.energy = Some(obmol_energy(pos)),
                     !.rmsd = IF stage = "ok" THEN Some("rmsd") ELSE @,
                     !.errors = IF stage = "ok" THEN @
                                ELSE Append(@, "AlignError") ]

FFSinglePoint ==
  /\ ~ exec.relax
  /\ \E ok \in BOOLEAN :
       /\ exec' = IF ok
                  THEN [ exec EXCEPT
                           !.energy = Some(obmol_energy(mol.positions)),
                           !.init_energy = Some(obmol_energy(mol.positions)),
                           !.successful = TRUE ]
                  ELSE [ exec EXCEPT !.errors = Append(@, "FFError") ]
       /\ events' = Append(events, "ff_energy")
       /\ mol' = mol

FFProtocol ==
  /\ pc = "ff_protocol"
  /\ now' = now + 1
  /\ (FFRelax \/ FFSinglePoint)
  /\ pc' = Successor("ff_protocol")
  /\ UNCHANGED << call, exc, db, evaluated >>

(***************************************************************************)
(* calculate(), io_calc.py 367-377: the force_generation fallback, then    *)
(* the elapsed time and the done flag.                                     *)
(***************************************************************************)
\* A fallback that does not ask for force_generation.
FallbackWanted_Unforced(e) == ~ e.successful

FallbackWanted(e) == (~ e.successful) /\ e.force_generation

Fallback ==
  /\ pc = "fallback"
  /\ now' = now + 1
  /\ \E ok \in BOOLEAN :
       LET e1 == IF ~ FallbackWanted(exec) THEN exec
                 ELSE IF ok
                 THEN [ exec EXCEPT
                          !.energy = Some(obmol_energy(mol.positions)),
                          !.init_energy = Some(obmol_energy(mol.positions)),
                          !.successful = TRUE ]
                 ELSE [ exec EXCEPT !.errors = Append(@, "FFError") ]
       IN  /\ (~ FallbackWanted(exec)) => ok
           /\ exec' = [ e1 EXCEPT !.calc_time = Some(now - Val(@)),
                                  !.done = TRUE ]
           /\ events' = IF FallbackWanted(exec)
                        THEN Append(events, "fallback") ELSE events
  /\ pc' = Successor("fallback")
  /\ UNCHANGED << call, mol, exc, db, evaluated >>

(***************************************************************************)
(* calculate(), io_calc.py 380-389: final sanity checks and the reset of   *)
(* a structure holding NaN coordinates.                                    *)
(***************************************************************************)
\* io_calc.py 386-389.
ResetIfNan(c, m) ==
  IF HasNan(m.positions)
  THEN [ convert_io_molecule(c) EXCEPT !.spin = "suggested" ]
  ELSE m

PostChecks ==
  /\ pc = "post"
  /\ now' = now + 1
  /\ \E sane \in ( IF exec.final_sanity_check
                   THEN SaneOutcomes(call, mol, exec.assembly)
                   ELSE { mol.dists_sane } ) :
       LET m1 == [ mol EXCEPT !.dists_sane = sane ]
           ev1 == IF exec.final_sanity_check
                  THEN Append(events, "final_check") ELSE events
       IN  /\ mol' = ResetIfNan(call, m1)
           /\ events' = IF HasNan(m1.positions)
                        THEN Append(ev1, "reset") ELSE ev1
           /\ evaluated' = m1.positions
  /\ pc' = Successor("post")
  /\ UNCHANGED << call, exec, exc, db >>

(***************************************************************************)
(* calculate(), io_calc.py 391-397, and dump_traj, 405-412.                *)
(***************************************************************************)
\* A dump that tags no frame relaxed.
dump_traj_Unrelaxed(n) ==
  [ i \in 1..n |-> [ what |-> "frame", geo_step |-> Some(i - 1),
                     relaxed |-> FALSE ] ]

\* dump_traj: every frame, the last one tagged relaxed.
dump_traj(n) ==
  [ i \in 1..n |-> [ what |-> "frame", geo_step |-> Some(i - 1),
                     relaxed |-> (i = n) ] ]

\* io_calc.py 391-397: what is written to parameters['ase_db'].
Writes(e, m) ==
  IF e.parameters.save_trajectories /\ e.trajectory # None
  THEN dump_traj(Val(e.trajectory))
  ELSE IF e.parameters.save_trajectories THEN << >>
  ELSE IF e.parameters.dump_ase_atoms /\ m.calc # None /\ ~ e.assembly
  THEN << [ what |-> "final", geo_step |-> None, relaxed |-> e.relax ] >>
  ELSE << >>

Persist ==
  /\ pc = "persist"
  /\ now' = now + 1
  /\ db' = db \o Writes(exec, mol)
  /\ events' = events \o [ i \in 1..Len(Writes(exec, mol)) |-> "db_write" ]
  /\ pc' = Successor("persist")
  /\ UNCHANGED << call, exec, mol, exc, evaluated >>

(***************************************************************************)
(* One construction.                                                       *)
(***************************************************************************)
Init ==
  /\ call \in Calls
  /\ exec = BoundAttributes(call)
  /\ mol = convert_io_molecule(call)
  /\ pc = "init"
  /\ exc = NoException
  /\ events = << >>
  /\ db = << >>
  /\ now = StartTime
  /\ evaluated = None
  /\ SymIdle
  /\ NebIdle
  /\ VibIdle

Next ==
  \/ CalcExecutor_init /\ UNCHANGED << symVars, nebVars, vibVars >>
  \/ Gate /\ UNCHANGED << symVars, nebVars, vibVars >>
  \/ SelectEngine /\ UNCHANGED << symVars, nebVars, vibVars >>
  \/ EngineProtocol /\ UNCHANGED << symVars, nebVars, vibVars >>
  \/ FFProtocol /\ UNCHANGED << symVars, nebVars, vibVars >>
  \/ Fallback /\ UNCHANGED << symVars, nebVars, vibVars >>
  \/ PostChecks /\ UNCHANGED << symVars, nebVars, vibVars >>
  \/ Persist /\ UNCHANGED << symVars, nebVars, vibVars >>

Spec == Init /\ [][Next]_execVars


(***************************************************************************)
(* io_symmetry.select_cons: the ligand/core symmetry enumerator.           *)
(*                                                                         *)
(* Site indices are Python's (0-based); positions in a list are 1-based.   *)
(***************************************************************************)
\* Ligands a caller passes in one call of select_cons.
MaxInputLigs == 4
\* Largest params['n_symmetries'] of a call.
MaxNSym == 2

RECURSIVE SumSeq(_)
SumSeq(s) == IF s = << >> THEN 0 ELSE Head(s) + SumSeq(Tail(s))

RECURSIVE Concat(_)
\* np.hstack / list concatenation of a list of rows.
Concat(rows) == IF rows = << >> THEN << >> ELSE Head(rows) \o Concat(Tail(rows))

Range(s) == { s[i] : i \in DOMAIN s }

\* The list with the elements of f, held as a list.
List(f) == f \o << >>

Reverse(s) == List([ i \in 1..Len(s) |-> s[Len(s) + 1 - i] ])

\* np.unique(item, return_counts=True): some count exceeds 1.
HasRepeat(s) == \E i, j \in DOMAIN s : i < j /\ s[i] = s[j]

RECURSIVE Insert(_, _)
Insert(x, s) ==
  IF s = << >> THEN << x >>
  ELSE IF x < Head(s) THEN << x >> \o s ELSE << Head(s) >> \o Insert(x, Tail(s))

RECURSIVE Sorted(_)
\* item.sort() of a row of site indices.
Sorted(s) == IF s = << >> THEN << >> ELSE Insert(Head(s), Sorted(Tail(s)))

\* np.argsort(keys) on a short list: the positions in ascending order of key,
\* equal keys in their order of appearance.
Argsort(keys) ==
  LET n == Len(keys)
      Before(i, j) == keys[i] < keys[j] \/ (keys[i] = keys[j] /\ i < j)
      Place(i) == 1 + Cardinality({ j \in 1..n : Before(j, i) })
  IN  List([ p \in 1..n |-> CHOOSE i \in 1..n : Place(i) = p ])

\* The elements of s in the order the positions of order give.
Reordered(s, order) == List([ i \in 1..Len(order) |-> s[order[i]] ])

\* Every row of rows with x put in front.
Prepend(x, rows) == List([ i \in 1..Len(rows) |-> << x >> \o rows[i] ])

RECURSIVE Combinations(_, _)
\* itertools.combinations(s, k), in its order.
Combinations(s, k) ==
  IF k = 0 THEN << << >> >>
  ELSE IF Len(s) < k THEN << >>
  ELSE Prepend(Head(s), Combinations(Tail(s), k - 1))
       \o Combinations(Tail(s), k)

(***************************************************************************)
(* Ligand descriptors (the dictionaries of ligInputDicts).                 *)
(*   coordList : the coordinating atoms                                    *)
(*   pinned    : the core sites the caller pinned them to, when coordList  *)
(*               was given as [atom, site] pairs; << >> otherwise          *)
(*   possible_core_cons, ligCharge : None while the key is absent          *)
(***************************************************************************)
Lig(smiles, ligType, coordList, pinned, cons) ==
  [ smiles |-> smiles, ligType |-> ligType, coordList |-> coordList,
    pinned |-> pinned, possible_core_cons |-> cons, ligCharge |-> None ]

\* The descriptors the calls are drawn from: plain monodentates, a pinned
\* one, one with a list of admissible sites, a cis bidentate, a sandwich
\* ligand, a set of two pinned atoms, one of a class without patterns, and
\* a trans-spanning bidentate.
Ligands ==
  [ Water       |-> Lig("O", "mono", << 0 >>, << >>, None),
    Chloride    |-> Lig("[Cl-]", "mono", << 0 >>, << >>, None),
    Oxo         |-> Lig("[O-2]", "mono", << 0 >>, << >>, None),
    ChloridePin |-> Lig("[Cl-]", "mono", << 0 >>, << 1 >>, None),
    AmminePre   |-> Lig("N", "mono", << 0 >>, << >>,
                        Some(<< << 0 >>, << 1 >> >>)),
    En          |-> Lig("NCCN", "bi_cis", << 0, 3 >>, << >>, None),
    Cp          |-> Lig("[cp-]", "sandwich", << 0, 1, 2, 3, 4 >>, << >>, None),
    EnPinned    |-> Lig("NCCN", "mono", << 0, 3 >>, << 0, 2 >>, None),
    Unknown     |-> Lig("NCCN", "chelate", << 0, 3 >>, << >>, None),
    EnTrans     |-> Lig("NCCN", "bi_trans", << 0, 3 >>, << >>, None) ]

LigandPool == { Ligands[k] : k \in DOMAIN Ligands }

\* params['fill_ligand'] and params['secondary_fill_ligand'].
FillerPool == { Ligands.Water, Ligands.En }

\* io_obabel.get_obmol_smiles(smiles).GetTotalCharge().
GetTotalCharge(smiles) ==
  CASE smiles = "[Cl-]" -> 0 - 1
    [] smiles = "[O-2]" -> 0 - 2
    [] smiles = "[cp-]" -> 0 - 1
    [] OTHER -> 0

\* io_obabel.get_obmol_smiles(smiles).NumAtoms().
NumAtoms(smiles) ==
  CASE smiles = "O" -> 3
    [] smiles = "N" -> 4
    [] smiles = "NCCN" -> 12
    [] smiles = "[cp-]" -> 10
    [] OTHER -> 1

\* The place of str(ligand) in the sorted order np.unique works with.
StrKey(lig) ==
  << CASE lig.smiles = "N" -> 1 [] lig.smiles = "NCCN" -> 2
       [] lig.smiles = "O" -> 3   [] lig.smiles = "[Cl-]" -> 4
       [] lig.smiles = "[O-2]" -> 5 [] OTHER -> 6 >>
  \o lig.coordList \o << 100 >>
  \o << CASE lig.ligType = "bi_cis" -> 1 [] lig.ligType = "bi_trans" -> 2
          [] lig.ligType = "chelate" -> 3 [] lig.ligType = "mono" -> 4
          [] OTHER -> 5 >>
  \o (IF lig.possible_core_cons = None THEN << >>
      ELSE << 100 >> \o Concat(Val(lig.possible_core_cons)))

RECURSIVE LexLess(_, _)
LexLess(a, b) ==
  IF b = << >> THEN FALSE
  ELSE IF a = << >> THEN TRUE
  ELSE IF Head(a) # Head(b) THEN Head(a) < Head(b)
  ELSE LexLess(Tail(a), Tail(b))

(***************************************************************************)
(* The core templates (core_geo_class): coordination numbers, site         *)
(* vectors in thousandths, and the site patterns of the ligand classes.    *)
(***************************************************************************)
Scale == 1000

geo_cn_dict ==
  [ linear |-> 2, trigonal_planar |-> 3, square_planar |-> 4,
    tetrahedral |-> 4 ]

geometry_dict ==
  [ linear          |-> << << 1000, 0, 0 >>, << 0 - 1000, 0, 0 >> >>,
    trigonal_planar |-> << << 1000, 0, 0 >>, << 0 - 500, 866, 0 >>,
                           << 0 - 500, 0 - 866, 0 >> >>,
    square_planar   |-> << << 1000, 0, 0 >>, << 0 - 1000, 0, 0 >>,
                           << 0, 1000, 0 >>, << 0, 0 - 1000, 0 >> >>,
    tetrahedral     |-> << << 577, 577, 577 >>, << 577, 0 - 577, 0 - 577 >>,
                           << 0 - 577, 577, 0 - 577 >>,
                           << 0 - 577, 0 - 577, 577 >> >> ]

\* A class has an entry for the cores that offer its pattern: no cis pair
\* on the linear core, no trans pair on the trigonal and tetrahedral ones.
liglist_geo_map_dict ==
  [ bi_cis   |-> [ trigonal_planar |-> << << 0, 1 >>, << 0, 2 >>, << 1, 2 >> >>,
                   square_planar   |-> << << 0, 2 >>, << 0, 3 >>,
                                          << 1, 2 >>, << 1, 3 >> >>,
                   tetrahedral     |-> << << 0, 1 >>, << 0, 2 >>, << 0, 3 >>,
                                          << 1, 2 >>, << 1, 3 >>,
                                          << 2, 3 >> >> ],
    bi_trans |-> [ linear          |-> << << 0, 1 >> >>,
                   square_planar   |-> << << 0, 1 >>, << 2, 3 >> >> ],
    sandwich |-> [ trigonal_planar |-> << << 0, 1, 2 >> >>,
                   square_planar   |-> << << 0, 1, 2 >>, << 0, 1, 3 >>,
                                          << 0, 2, 3 >>, << 1, 2, 3 >> >>,
                   tetrahedral     |-> << << 0, 1, 2 >>, << 0, 1, 3 >>,
                                          << 0, 2, 3 >>, << 1, 2, 3 >> >> ] ]

(***************************************************************************)
(* The calls of select_cons the model draws: a core template, at most      *)
(* MaxInputLigs ligands of at most two kinds, and the params it reads.     *)
(***************************************************************************)
SymCalls ==
  [ coreType      : DOMAIN geo_cn_dict,
    ligInputDicts : UNION { UNION { [ 1..n -> { a, b } ] :
                                      n \in 0..MaxInputLigs } :
                            a \in LigandPool, b \in LigandPool },
    params        : [ fill_ligand : FillerPool,
                      secondary_fill_ligand : FillerPool,
                      n_symmetries : 1..MaxNSym,
                      force_trans_oxos : BOOLEAN ] ]

\* An exception leaves select_cons.
SymRaise(type) ==
  /\ sympc' = "raised"
  /\ symexc' = type

IsHaptic(lig) == lig.ligType = "sandwich" \/ lig.ligType = "haptic"

\* A count that takes all the sandwich and haptic ligands together as
\* three sites.
n_fill_ligs_OneFace(ligs, tmp_cn) ==
  IF \E i \in DOMAIN ligs : IsHaptic(ligs[i])
  THEN tmp_cn - 3
         - SumSeq(List([ i \in 1..Len(ligs) |->
                           IF IsHaptic(ligs[i]) THEN 0
                           ELSE Len(ligs[i].coordList) ]))
  ELSE tmp_cn - SumSeq(List([ i \in 1..Len(ligs) |->
                                Len(ligs[i].coordList) ]))

\* io_symmetry.py 265-269: the number of unoccupied core sites; every
\* sandwich or haptic ligand is counted as three sites (- 3*nsand).
n_fill_ligs(ligs, tmp_cn) ==
  tmp_cn - SumSeq(List([ i \in 1..Len(ligs) |->
                           IF IsHaptic(ligs[i]) THEN 3
                           ELSE Len(ligs[i].coordList) ]))

\* io_symmetry.py 271-272: the copies of the primary filler.
n_fill_ligs_reduced(n, fill_ligand) == n \div Len(fill_ligand.coordList)

\* io_symmetry.py 272: the copies of the secondary filler.
n_fill_secondary(n, fill_ligand) ==
  n - n_fill_ligs_reduced(n, fill_ligand) * Len(fill_ligand.coordList)

\* io_symmetry.py 279-287: the ligand list extended with the fillers.
WithFillers(ligs, n, ps) ==
  ligs \o [ i \in 1..n_fill_ligs_reduced(n, ps.fill_ligand) |->
              ps.fill_ligand ]
       \o [ i \in 1..n_fill_secondary(n, ps.fill_ligand) |->
              ps.secondary_fill_ligand ]

\* Step 1 of select_cons (io_symmetry.py 254-287).
FillLigands ==
  /\ sympc = "fill"
  /\ \E n \in { n_fill_ligs(symcall.ligInputDicts,
                            geo_cn_dict[symcall.coreType]) } :
       IF n < 0
       THEN /\ SymRaise("ValueError: over-coordinated")
            /\ UNCHANGED newLigInputDicts
       ELSE /\ newLigInputDicts' =
                 WithFillers(symcall.ligInputDicts, n, symcall.params)
            /\ sympc' = "resolve"
            /\ UNCHANGED symexc
  /\ UNCHANGED << symcall, selected_con_lists, denticities, goods, inverse,
                  good_combos, out_combos, out_energies, out_liglists, good >>
  /\ UNCHANGED << execVars, nebVars, vibVars >>

\* One ligand resolved: its patterns, its denticity, the dictionary as the
\* code leaves it, and the oxo ligands pinned so far.
Resolved(cons, lig, trans) ==
  [ raised |-> "", good |-> TRUE, cons |-> cons, dent |-> Len(cons[1]),
    lig |-> lig, trans |-> trans ]

\* io_symmetry.py 299-303: the ligand class has no pattern on this core.
Unmappable(lig, trans) ==
  [ raised |-> "", good |-> FALSE, cons |-> << >>, dent |-> 0,
    lig |-> lig, trans |-> trans ]

ResolveRaised(type, lig, trans) ==
  [ raised |-> type, good |-> FALSE, cons |-> << >>, dent |-> 0,
    lig |-> lig, trans |-> trans ]

\* io_symmetry.py 308-309, 319, 334-335: the patterns written back into the
\* dictionary, and the [atom, site] pairs of coordList reduced to the atoms.
WithCons(lig, cons) ==
  [ lig EXCEPT !.possible_core_cons = Some(cons), !.pinned = << >> ]

\* io_symmetry.py 293-341: the site patterns, the denticity and the
\* mappability of one ligand; trans counts the oxo ligands already pinned.
ResolveLigand(lig, coreType, trans, ps) ==
  IF Len(lig.coordList) > 1 /\ lig.ligType \in DOMAIN liglist_geo_map_dict
  THEN IF coreType \in DOMAIN liglist_geo_map_dict[lig.ligType]
       THEN Resolved(liglist_geo_map_dict[lig.ligType][coreType], lig, trans)
       ELSE Unmappable(lig, trans)
  ELSE IF Len(lig.coordList) = 1
  THEN IF lig.pinned # << >>
       THEN Resolved(<< << lig.pinned[1] >> >>,
                     WithCons(lig, << << lig.pinned[1] >> >>), trans)
       ELSE IF lig.smiles = "[O-2]" /\ ps.force_trans_oxos
       THEN IF trans = 0
            THEN Resolved(<< << 0 >> >>, WithCons(lig, << << 0 >> >>),
                          trans + 1)
            ELSE Resolved(<< << 1 >> >>, WithCons(lig, << << 1 >> >>),
                          trans + 1)
       ELSE IF lig.possible_core_cons # None
       THEN Resolved(Val(lig.possible_core_cons), lig, trans)
       \* io_symmetry.py 327: every core site is a singleton pattern
       ELSE Resolved(List([ x \in 1..geo_cn_dict[coreType] |-> << x - 1 >> ]),
                     lig, trans)
  ELSE IF lig.ligType = "mono" /\ Len(lig.coordList) > 1
  THEN IF lig.pinned # << >>
       THEN Resolved(<< lig.pinned >>, WithCons(lig, << lig.pinned >>), trans)
       ELSE IF lig.possible_core_cons # None
       THEN Resolved(Val(lig.possible_core_cons), lig, trans)
       ELSE ResolveRaised("KeyError: possible_core_cons", lig, trans)
  ELSE ResolveRaised("ValueError: not in known ligTypes", lig, trans)

\* io_symmetry.py 342-345: what one pass of the loop appends.
Appended(acc, k, r) ==
  [ raised |-> r.raised,
    ligs   |-> [ acc.ligs EXCEPT ![k] = r.lig ],
    cons   |-> Append(acc.cons, r.cons),
    dents  |-> Append(acc.dents, r.dent),
    goods  |-> Append(acc.goods, r.good),
    trans  |-> r.trans ]

RECURSIVE ResolveFrom(_, _, _, _)
\* io_symmetry.py 289-345: the loop over the ligands, from ligand k on.
ResolveFrom(k, acc, coreType, ps) ==
  IF k > Len(acc.ligs) \/ acc.raised # "" THEN acc
  ELSE ResolveFrom(k + 1,
         Appended(acc, k, ResolveLigand(acc.ligs[k], coreType, acc.trans, ps)),
         coreType, ps)

\* Step 2 of select_cons (io_symmetry.py 289-345).
ResolvePatterns ==
  /\ sympc = "resolve"
  /\ \E acc \in { ResolveFrom(1,
                    [ raised |-> "", ligs |-> newLigInputDicts,
                      cons |-> << >>, dents |-> << >>, goods |-> << >>,
                      trans |-> 0 ],
                    symcall.coreType, symcall.params) } :
       IF acc.raised # ""
       THEN /\ SymRaise(acc.raised)
            /\ UNCHANGED << newLigInputDicts, selected_con_lists,
                            denticities, goods >>
       ELSE /\ newLigInputDicts' = acc.ligs
            /\ selected_con_lists' = acc.cons
            /\ denticities' = acc.dents
            /\ goods' = acc.goods
            /\ sympc' = "order"
            /\ UNCHANGED symexc
  /\ UNCHANGED << symcall, inverse, good_combos, out_combos, out_energies,
                  out_liglists, good >>
  /\ UNCHANGED << execVars, nebVars, vibVars >>

\* The distinct descriptors of ligs in the sorted order of their strings.
SortedStrs(vals) ==
  LET Place(w) == 1 + Cardinality({ v \in vals :
                                      LexLess(StrKey(v), StrKey(w)) })
  IN  List([ k \in 1..Cardinality(vals) |-> CHOOSE v \in vals : Place(v) = k ])

\* What np.unique returns for the ligands ligs with distinct values u.
UniqueOf(ligs, u) ==
  [ uinds   |-> List([ k \in 1..Len(u) |->
                  CHOOSE i \in 1..Len(ligs) :
                    ligs[i] = u[k] /\ \A j \in 1..(i - 1) : ligs[j] # u[k] ]),
    uinv    |-> List([ i \in 1..Len(ligs) |->
                  CHOOSE k \in 1..Len(u) : u[k] = ligs[i] ]),
    ucounts |-> List([ k \in 1..Len(u) |->
                  Cardinality({ i \in 1..Len(ligs) : ligs[i] = u[k] }) ]) ]

\* io_symmetry.py 124-129: the loop over the rows out, each sorted; a row
\* without a repeated site is kept, and refdict maps it to its combination
\* (the last one enumerated when several give the same row).
KeptRows(out, highdents, pseudo_dent) ==
  LET kept == { i \in 1..Len(out) : ~ HasRepeat(out[i]) }
  IN  [ raised      |-> IF pseudo_dent = 0
                        THEN "ValueError: cannot convert float NaN to integer"
                        ELSE "",
        reshape_out |-> SelectSeq(out, LAMBDA item : ~ HasRepeat(item)),
        refdict     |-> [ key \in { out[i] : i \in kept } |->
                            highdents[CHOOSE i \in kept :
                                        /\ out[i] = key
                                        /\ \A j \in kept :
                                             out[j] = key => j <= i] ],
        pseudo_dent |-> pseudo_dent ]

\* The compaction of the combinations all_combos (io_symmetry.py 117-129):
\* one row per combination, its patterns side by side, sorted
\* (item.sort()).
Compacted(all_combos, pseudo_dent) ==
  KeptRows(List([ i \in 1..Len(all_combos) |->
                    Sorted(Concat(all_combos[i])) ]),
           all_combos, pseudo_dent)

\* io_symmetry.py 91-130.
map_repeat_to_highdent(sel_con_list, nlig, denticity) ==
  Compacted(Combinations(sel_con_list, nlig), nlig * denticity)

\* What map_all_repeat_to_highdent records for a ligand that is no repeat.
NoRepeat(sel_con_list, denticity) ==
  [ raised |-> "", reshape_out |-> sel_con_list, refdict |-> << >>,
    pseudo_dent |-> denticity ]

\* io_symmetry.py 170-181: the intermediate lists, one entry per distinct
\* ligand.
Intermediate(uinds, ucounts, dents, sel_con_lists) ==
  List([ k \in 1..Len(uinds) |->
           IF ucounts[k] = 1
           THEN NoRepeat(sel_con_lists[uinds[k]], dents[uinds[k]])
           ELSE map_repeat_to_highdent(sel_con_lists[uinds[k]], ucounts[k],
                                       dents[uinds[k]]) ])

\* io_symmetry.py 190-198: for every ligand, its distinct descriptor, the
\* place of that descriptor in the new order, and which repeat it is.
InvInds(uinv, dent_order) ==
  List([ i \in 1..Len(uinv) |->
           << uinv[i],
              CHOOSE p \in 1..Len(dent_order) : dent_order[p] = uinv[i],
              1 + Cardinality({ j \in 1..(i - 1) : uinv[j] = uinv[i] }) >> ])

\* io_symmetry.py 182-199: the intermediate lists in decreasing order of
\* pseudo-denticity.
InNewOrder(mid, ucounts, uinv, dent_order) ==
  LET failed == { k \in 1..Len(mid) : mid[k].raised # "" }
  IN  [ raised    |-> IF failed = {} THEN ""
                      ELSE mid[CHOOSE k \in failed :
                                 \A j \in failed : k <= j].raised,
        inv_dicts |-> List([ k \in 1..Len(mid) |->
                               [ isdict  |-> ucounts[k] > 1,
                                 refdict |-> mid[k].refdict ] ]),
        inv_inds  |-> InvInds(uinv, dent_order),
        selected_con_lists |->
          List([ i \in 1..Len(mid) |-> mid[dent_order[i]].reshape_out ]),
        denticities |->
          List([ i \in 1..Len(mid) |-> mid[dent_order[i]].pseudo_dent ]) ]

\* io_symmetry.py 182: the entries in decreasing order of pseudo-denticity.
Regrouped(mid, ucounts, uinv) ==
  InNewOrder(mid, ucounts, uinv,
             Reverse(Argsort(List([ k \in 1..Len(mid) |->
                                      mid[k].pseudo_dent ]))))

\* io_symmetry.py 132-199.
map_all_repeat_to_highdent(uinds, uinv, ucounts, dents, sel_con_lists) ==
  IF \A k \in DOMAIN ucounts : ucounts[k] <= 1
  THEN [ raised |-> "", inv_dicts |-> << >>, inv_inds |-> << >>,
         selected_con_lists |-> sel_con_lists, denticities |-> dents ]
  ELSE Regrouped(Intermediate(uinds, ucounts, dents, sel_con_lists),
                 ucounts, uinv)

\* io_symmetry.py 201-229.
inv_map_highdent_to_repeat(incombo, inv_dicts, inv_inds) ==
  List([ i \in 1..Len(inv_inds) |->
           IF inv_dicts[inv_inds[i][1]].isdict
           THEN inv_dicts[inv_inds[i][1]].refdict[incombo[inv_inds[i][2]]]
                                                 [inv_inds[i][3]]
           ELSE incombo[inv_inds[i][2]] ])

\* Steps 3 and 4 of select_cons (io_symmetry.py 347-383): the ligands in
\* decreasing order of denticity, each with its charge added to its
\* dictionary (361), then the repeats compacted.
OrderAndCompact ==
  /\ sympc = "order"
  /\ \E dent_order \in { Reverse(Argsort(denticities)) } :
     \E ligs \in { List([ i \in 1..Len(dent_order) |->
                            [ newLigInputDicts[dent_order[i]] EXCEPT
                                !.ligCharge = Some(GetTotalCharge(
                                  newLigInputDicts[dent_order[i]].smiles)) ] ]) } :
     \E u \in { UniqueOf(ligs, SortedStrs(Range(ligs))) } :
     \E r \in { map_all_repeat_to_highdent(u.uinds, u.uinv, u.ucounts,
                  Reordered(denticities, dent_order),
                  Reordered(selected_con_lists, dent_order)) } :
       IF r.raised # ""
       THEN /\ SymRaise(r.raised)
            /\ UNCHANGED << newLigInputDicts, selected_con_lists,
                            denticities, inverse >>
       ELSE /\ newLigInputDicts' = ligs
            /\ selected_con_lists' = r.selected_con_lists
            /\ denticities' = r.denticities
            /\ inverse' = [ inverse_needed |->
                              \E k \in DOMAIN u.ucounts : u.ucounts[k] > 1,
                            inv_dicts |-> r.inv_dicts,
                            inv_inds  |-> r.inv_inds ]
            /\ sympc' = "enumerate"
            /\ UNCHANGED symexc
  /\ UNCHANGED << symcall, goods, good_combos, out_combos, out_energies,
                  out_liglists, good >>
  /\ UNCHANGED << execVars, nebVars, vibVars >>

\* A pattern list that is empty is a one-dimensional array: np.any(...,
\* axis=1) has no axis 1 to work on.
AxisError == "AxisError: axis 1 is out of bounds"

\* test_combos without its filter on the occupied sites.
test_combos_NoFilter(combs, occupied) == combs

\* io_symmetry.py 11-28: the rows of combs that use no occupied site.
test_combos(combs, occupied) ==
  SelectSeq(combs, LAMBDA row : Range(row) \cap Range(occupied) = {})

\* len() of what generate_good_combos returned.
ResultLen(t) == IF t.leaf THEN Len(t.rows) ELSE Len(t.kids)

\* io_symmetry.py 77-88: all_lig, the non-empty results of the recursive
\* calls; an exception of a call leaves the loop.
AllLig(lst) ==
  LET failed == { i \in 1..Len(lst) : lst[i].raised # "" }
  IN  [ raised |-> IF failed = {} THEN ""
                   ELSE lst[CHOOSE i \in failed :
                              \A j \in failed : i <= j].raised,
        leaf   |-> FALSE,
        kids   |-> SelectSeq(lst, LAMBDA t : ResultLen(t) > 0) ]

GenRaised(type) == [ raised |-> type, leaf |-> FALSE, kids |-> << >> ]

RECURSIVE generate_good_combos(_, _, _, _)
RECURSIVE Recurse(_, _, _, _, _)
\* io_symmetry.py 78-85: the recursive call for every remaining row r.
Recurse(sel_input_lst, sel_ind, prev_lig, occupied_max, res) ==
  List([ i \in 1..Len(res) |->
           generate_good_combos(sel_input_lst, sel_ind + 1,
                                Append(prev_lig, res[i]), occupied_max) ])

\* io_symmetry.py 50-89.  The result is the nested list the code builds.
generate_good_combos(sel_input_lst, sel_ind, prev_lig, occupied_max) ==
  IF Len(Concat(prev_lig)) < occupied_max
  THEN IF sel_ind > Len(sel_input_lst)
       THEN GenRaised("IndexError: list index out of range")
       ELSE IF sel_input_lst[sel_ind] = << >>
       THEN GenRaised(AxisError)
       ELSE AllLig(Recurse(sel_input_lst, sel_ind, prev_lig, occupied_max,
                           test_combos(sel_input_lst[sel_ind],
                                       Concat(prev_lig))))
  ELSE [ raised |-> "", leaf |-> TRUE, rows |-> prev_lig ]

RECURSIVE flatten(_)
\* io_symmetry.py 30-48: the site indices of the nested list, in order.
flatten(t) ==
  IF t.leaf THEN Concat(t.rows)
  ELSE Concat(List([ i \in 1..Len(t.kids) |-> flatten(t.kids[i]) ]))

\* io_symmetry.py 402: np.array(tmp).reshape(int(len/ncols), ncols).
Reshape(flat, ncols) ==
  List([ i \in 1..(Len(flat) \div ncols) |->
           SubSeq(flat, (i - 1) * ncols + 1, i * ncols) ])

\* Step 5 of select_cons (io_symmetry.py 388-404, 462-471).
Enumerate ==
  /\ sympc = "enumerate"
  /\ IF \A i \in DOMAIN goods : goods[i]
     THEN \E tree \in { generate_good_combos(selected_con_lists, 1, << >>,
                                             geo_cn_dict[symcall.coreType]) } :
          \E tmp \in { flatten(tree) } :
          \E ncols \in { SumSeq(denticities) } :
            IF tree.raised # ""
            THEN /\ SymRaise(tree.raised)
                 /\ UNCHANGED << good_combos, out_liglists, good >>
            ELSE IF ResultLen(tree) = 0
            THEN /\ good' = FALSE
                 /\ out_liglists' = << >>
                 /\ sympc' = "returned"
                 /\ UNCHANGED << good_combos, symexc >>
            ELSE IF (Len(tmp) \div ncols) * ncols # Len(tmp)
            THEN /\ SymRaise("ValueError: cannot reshape array")
                 /\ UNCHANGED << good_combos, out_liglists, good >>
            ELSE /\ good_combos' = Reshape(tmp, ncols)
                 /\ sympc' = "score"
                 /\ UNCHANGED << out_liglists, good, symexc >>
     ELSE /\ good' = FALSE
          /\ out_liglists' = << >>
          /\ sympc' = "returned"
          /\ UNCHANGED << good_combos, symexc >>
  /\ UNCHANGED << symcall, newLigInputDicts, selected_con_lists, denticities,
                  goods, inverse, out_combos, out_energies >>
  /\ UNCHANGED << execVars, nebVars, vibVars >>

RECURSIVE IsqrtFrom(_, _, _)
IsqrtFrom(n, lo, hi) ==
  IF lo >= hi THEN lo
  ELSE LET mid == (lo + hi + 1) \div 2
       IN  IF mid * mid <= n THEN IsqrtFrom(n, mid, hi)
           ELSE IsqrtFrom(n, lo, mid - 1)

\* The square root of n, to the nearest integer (n below 2^30).
Isqrt(n) ==
  LET s == IsqrtFrom(n, 0, 32767)
  IN  IF n - s * s > s THEN s + 1 ELSE s

\* a / b to the nearest integer, halves away from zero (b > 0).
RoundDiv(a, b) ==
  IF a >= 0 THEN (2 * a + b) \div (2 * b)
  ELSE 0 - ((2 * (0 - a) + b) \div (2 * b))

\* np.round(x, 2) of a value held in thousandths: hundredths, halves to even.
RoundHundredths(x) ==
  LET q == x \div 10
      r == x - 10 * q
  IN  IF r > 5 \/ (r = 5 /\ q % 2 = 1) THEN q + 1 ELSE q

Norm(v) == Isqrt(v[1] * v[1] + v[2] * v[2] + v[3] * v[3])

RECURSIVE VecSum(_)
VecSum(vs) ==
  IF vs = << >> THEN << 0, 0, 0 >>
  ELSE LET t == VecSum(Tail(vs))
       IN  << Head(vs)[1] + t[1], Head(vs)[2] + t[2], Head(vs)[3] + t[3] >>

\* io_symmetry.py 419-420: posit as a unit vector, unless its norm vanishes.
UnitVector(posit) ==
  IF Norm(posit) = 0 THEN posit
  ELSE << RoundDiv(posit[1] * Scale, Norm(posit)),
          RoundDiv(posit[2] * Scale, Norm(posit)),
          RoundDiv(posit[3] * Scale, Norm(posit)) >>

\* A score: a number in hundredths, or what the division by r = 0 leaves.
Num(v) == [ kind |-> "num", v |-> v ]
Inf    == [ kind |-> "inf", v |-> 0 ]
NaN    == [ kind |-> "nan", v |-> 0 ]

\* io_symmetry.py 430-432: the two terms of a pair at distance r, in
\* thousandths.
Terms(r, qi, qj, ni, nj) ==
  IF r = 0 THEN (IF qi * qj > 0 THEN Inf ELSE NaN)
  ELSE Num(RoundDiv((qi * qj * (ni + nj) + ni * nj) * Scale * 1000, r))

\* io_symmetry.py 428-432: what one pair of ligands adds to the score.
PairTerm(pi, pj, li, lj) ==
  Terms(Norm(<< pi[1] - pj[1], pi[2] - pj[2], pi[3] - pj[3] >>),
        GetTotalCharge(li.smiles), GetTotalCharge(lj.smiles),
        NumAtoms(li.smiles), NumAtoms(lj.smiles))

\* itertools.combinations(range(n), 2), in its order.


\* io_symmetry.py 423-435: the sum of the terms, rounded (np.round(x, 2)).
Total(terms) ==
  IF \E i \in DOMAIN terms : terms[i].kind = "nan" THEN NaN
  ELSE IF \E i \in DOMAIN terms : terms[i].kind = "inf" THEN Inf
  ELSE Num(RoundHundredths(
             SumSeq(List([ i \in 1..Len(terms) |-> terms[i].v ]))))

PairTerms(positions, ligs, pairs) ==
  List([ k \in 1..Len(pairs) |->
           PairTerm(positions[pairs[k][1]], positions[pairs[k][2]],
                    ligs[pairs[k][1]], ligs[pairs[k][2]]) ])

\* io_symmetry.py 414-422: the representative positions of the ligands,
\* each the unit vector of the sum of its sites (416-421).
Positions(combo, geometry) ==
  List([ j \in 1..Len(combo) |->
           UnitVector(VecSum(List([ i \in 1..Len(combo[j]) |->
                                      geometry[combo[j][i] + 1] ]))) ])

\* io_symmetry.py 414-435: the rounded score of one assignment.
Score(combo, ligs, geometry) ==
  Total(PairTerms(Positions(combo, geometry), ligs,
                  \* itertools.combinations(range(len(combo)), 2)
                  Combinations(List([ i \in 1..Len(combo) |-> i ]), 2)))

\* A test that finds no score in the list.
NotIn_Always(e, energies) == TRUE

\* io_symmetry.py 440: out_energy not in out_energies.
NotIn(e, energies) ==
  e.kind = "nan" \/ \A i \in DOMAIN energies : energies[i] # e

\* The first n elements of s (s[0:n]).
Take(s, n) == SubSeq(s, 1, IF n < Len(s) THEN n ELSE Len(s))

\* io_symmetry.py 406: the assignments scored (good_combos[0:10000]).
MaxScored == 10000

\* io_symmetry.py 407-409: the rows of one assignment, per (pseudo-)ligand.
SplitByDenticity(combo, dents) ==
  List([ j \in 1..Len(dents) |->
           SubSeq(combo, SumSeq(SubSeq(dents, 1, j - 1)) + 1,
                         SumSeq(SubSeq(dents, 1, j))) ])

\* io_symmetry.py 407-413: the rows of one assignment, per ligand.
PerLigand(combo, dents, inv) ==
  IF inv.inverse_needed
  THEN inv_map_highdent_to_repeat(SplitByDenticity(combo, dents),
                                  inv.inv_dicts, inv.inv_inds)
  ELSE SplitByDenticity(combo, dents)

\* io_symmetry.py 440-443: the assignment kept unless its score is known.
Kept(acc, combo, e) ==
  IF NotIn(e, acc.out_energies)
  THEN [ out_combos   |-> Append(acc.out_combos, combo),
         out_energies |-> Append(acc.out_energies, e) ]
  ELSE acc

RECURSIVE ScoreFrom(_, _, _, _, _)
\* io_symmetry.py 406-444: the loop over the assignments, from the i-th on.
ScoreFrom(i, acc, combos, ligs, geometry) ==
  IF i > Len(combos) THEN acc
  ELSE ScoreFrom(i + 1,
                 Kept(acc, combos[i], Score(combos[i], ligs, geometry)),
                 combos, ligs, geometry)

\* The key np.argsort orders a score by: numbers, then inf, then nan.
SortKey(e) ==
  CASE e.kind = "num" -> e.v
    [] e.kind = "inf" -> 1000000000
    [] e.kind = "nan" -> 1000000001

\* The slice of line 448 one element short.
TakeSymmetries_OneShort(energies, n_symmetries) ==
  Take(Argsort(List([ i \in 1..Len(energies) |-> SortKey(energies[i]) ])),
       n_symmetries - 1)

\* io_symmetry.py 448: np.argsort(out_energies)[0:n_symmetries].
TakeSymmetries(energies, n_symmetries) ==
  Take(Argsort(List([ i \in 1..Len(energies) |-> SortKey(energies[i]) ])),
       n_symmetries)

\* io_symmetry.py 451-460: [atom, site] pairs per ligand; a sandwich or
\* haptic ligand reports every atom against the whole list of sites.
LigList(lig, selected_con_list) ==
  IF IsHaptic(lig)
  THEN List([ i \in 1..Len(lig.coordList) |->
                << lig.coordList[i], selected_con_list >> ])
  ELSE List([ i \in 1..Len(selected_con_list) |->
                << lig.coordList[i], selected_con_list[i] >> ])

\* io_symmetry.py 449-461: the candidates, in the order of sort_order.
OutLigLists(out, sort_order, ligs) ==
  List([ k \in 1..Len(sort_order) |->
           List([ j \in 1..Len(out[sort_order[k]]) |->
                    LigList(ligs[j], out[sort_order[k]][j]) ]) ])

\* io_symmetry.py 416-417: geometry[inds] for a site the core does not have
\* raises IndexError.
OutOfRange(combo, ncore) ==
  \E j \in DOMAIN combo : \E i \in DOMAIN combo[j] : combo[j][i] >= ncore

\* Step 6 of select_cons (io_symmetry.py 406-461, 471).
ScoreAndSelect ==
  /\ sympc = "score"
  /\ \E combos \in { List([ i \in 1..Len(Take(good_combos, MaxScored)) |->
                             PerLigand(good_combos[i], denticities,
                                       inverse) ]) } :
       IF \E i \in DOMAIN combos :
            OutOfRange(combos[i], geo_cn_dict[symcall.coreType])
       THEN /\ SymRaise("IndexError: index is out of bounds")
            /\ UNCHANGED << out_combos, out_energies, good, out_liglists >>
       ELSE \E acc \in { ScoreFrom(1, [ out_combos |-> << >>,
                                        out_energies |-> << >> ],
                                   combos, newLigInputDicts,
                                   geometry_dict[symcall.coreType]) } :
              /\ out_combos' = acc.out_combos
              /\ out_energies' = acc.out_energies
              /\ good' = (Len(acc.out_energies) > 0)
              /\ out_liglists' =
                   OutLigLists(acc.out_combos,
                               TakeSymmetries(acc.out_energies,
                                              symcall.params.n_symmetries),
                               newLigInputDicts)
              /\ sympc' = "returned"
              /\ UNCHANGED symexc
  /\ UNCHANGED << symcall, newLigInputDicts, selected_con_lists, denticities,
                  goods, inverse, good_combos >>
  /\ UNCHANGED << execVars, nebVars, vibVars >>

(***************************************************************************)
(* One call of select_cons.                                                *)
(***************************************************************************)
InitSym ==
  /\ symcall \in SymCalls
  /\ newLigInputDicts = << >>
  /\ selected_con_lists = << >>
  /\ denticities = << >>
  /\ goods = << >>
  /\ inverse = [ inverse_needed |-> FALSE, inv_dicts |-> << >>,
                 inv_inds |-> << >> ]
  /\ good_combos = << >>
  /\ out_combos = << >>
  /\ out_energies = << >>
  /\ out_liglists = << >>
  /\ good = FALSE
  /\ sympc = "fill"
  /\ symexc = ""
  /\ call = None
  /\ exec = None
  /\ mol = None
  /\ pc = "idle"
  /\ exc = NoException
  /\ events = << >>
  /\ db = << >>
  /\ now = StartTime
  /\ evaluated = None
  /\ NebIdle
  /\ VibIdle

NextSym ==
  \/ FillLigands
  \/ ResolvePatterns
  \/ OrderAndCompact
  \/ Enumerate
  \/ ScoreAndSelect

SpecSym == InitSym /\ [][NextSym]_symVars


(***************************************************************************)
(* io_neb.NEB_setup                                                        *)
(*                                                                         *)
(* A geometry is the position of every atom; NEB_setup only moves          *)
(* geometries around, so a position is named after where it comes from:    *)
(* "initial", "final" as given, "aligned" after neb_align, "interior"      *)
(* after interpolation.                                                    *)
(***************************************************************************)
Geometry(tag) == [ i \in 1..NAtoms |-> tag ]

NebCalls ==
  [ initial    : { Geometry("initial") },
    final      : { Geometry("final") },
    nimages    : 0..MaxImages,
    neb_method : { "GFN2-xTB", "UFF", "DFT" } ]

\* neb_align rotates and translates the final structure onto the initial
\* one and returns the moved structure.
neb_align(initial, final) == Geometry("aligned")

\* A chain with one interior copy too many.
Chain_OneMore(initial, final, nimages) ==
  << initial >> \o [ x \in 1..(nimages - 1) |-> initial ] \o << final >>

\* images = [initial] + [initial.copy() for x in range(nimages-2)] + [final]
Chain(initial, final, nimages) ==
  << initial >> \o [ x \in 1..(nimages - 2) |-> initial ] \o << final >>

\* An interpolation that places the endpoints too.
interpolate_All(imgs) == [ k \in 1..Len(imgs) |-> Geometry("interior") ]

\* ase.neb.NEB.interpolate: every image strictly between the first and the
\* last is placed on the path between them.
interpolate(imgs) ==
  [ k \in 1..Len(imgs) |->
      IF k = 1 \/ k = Len(imgs) THEN imgs[k] ELSE Geometry("interior") ]

\* Lines 13-19: the endpoints are converted, the final one aligned, and the
\* chain of images built.
NEB_images ==
  /\ nebpc = "images"
  /\ images' = Chain(nebcall.initial,
                     neb_align(nebcall.initial, nebcall.final),
                     nebcall.nimages)
  /\ nebpc' = "interpolate"
  /\ UNCHANGED << nebcall, neb_images, runs >>
  /\ UNCHANGED execVars

\* Lines 20-21.
NEB_interpolate ==
  /\ nebpc = "interpolate"
  /\ images' = interpolate(images)
  /\ nebpc' = "loop"
  /\ UNCHANGED << nebcall, neb_images, runs >>
  /\ UNCHANGED execVars

\* Line 24, first half: the executor for the next image is constructed,
\* CalcExecutor(image, method=neb_method), every other argument default.
NEB_CalcExecutor ==
  /\ nebpc = "loop"
  /\ Len(neb_images) < Len(images)
  /\ \E c \in { [ MkCall("empty", IF nebcall.neb_method = "GFN2-xTB"
                                   THEN { }
                                   ELSE { "method=" \o nebcall.neb_method })
                      EXCEPT !.positions = images[Len(neb_images) + 1] ] } :
       /\ call' = c
       /\ exec' = BoundAttributes(c)
       /\ mol' = convert_io_molecule(c)
  /\ pc' = "init"
  /\ exc' = NoException
  /\ events' = << >>
  /\ evaluated' = None
  /\ nebpc' = "executor"
  /\ UNCHANGED << db, now >>
  /\ UNCHANGED << nebcall, images, neb_images, runs >>

\* Lines 24-25, second half: the constructor returned, and the evaluated
\* structure is appended.
NEB_append ==
  /\ nebpc = "executor"
  /\ pc = "done"
  /\ neb_images' = Append(neb_images, mol.positions)
  /\ runs' = Append(runs, [ relax |-> exec.relax, events |-> events ])
  /\ nebpc' = "loop"
  /\ UNCHANGED << nebcall, images >>
  /\ UNCHANGED execVars

\* An exception of the constructor leaves NEB_setup.
NEB_raise ==
  /\ nebpc = "executor"
  /\ pc = "raised"
  /\ nebpc' = "raised"
  /\ UNCHANGED << nebcall, images, neb_images, runs >>
  /\ UNCHANGED execVars

\* Lines 26-27.
NEB_return ==
  /\ nebpc = "loop"
  /\ Len(neb_images) = Len(images)
  /\ images' = neb_images
  /\ nebpc' = "returned"
  /\ UNCHANGED << nebcall, neb_images, runs >>
  /\ UNCHANGED execVars

InitNeb ==
  /\ nebcall \in NebCalls
  /\ images = << >>
  /\ neb_images = << >>
  /\ runs = << >>
  /\ nebpc = "images"
  /\ call = None
  /\ exec = None
  /\ mol = None
  /\ pc = "idle"
  /\ exc = NoException
  /\ events = << >>
  /\ db = << >>
  /\ now = StartTime
  /\ evaluated = None
  /\ SymIdle
  /\ VibIdle

NextNeb ==
  \/ NEB_images /\ UNCHANGED << symVars, vibVars >>
  \/ NEB_interpolate /\ UNCHANGED << symVars, vibVars >>
  \/ NEB_CalcExecutor /\ UNCHANGED << symVars, vibVars >>
  \/ NEB_append /\ UNCHANGED << symVars, vibVars >>
  \/ NEB_raise /\ UNCHANGED << symVars, vibVars >>
  \/ NEB_return /\ UNCHANGED << symVars, vibVars >>
  \/ CalcExecutor_init /\ UNCHANGED << symVars, nebVars, vibVars >>
  \/ Gate /\ UNCHANGED << symVars, nebVars, vibVars >>
  \/ SelectEngine /\ UNCHANGED << symVars, nebVars, vibVars >>
  \/ EngineProtocol /\ UNCHANGED << symVars, nebVars, vibVars >>
  \/ FFProtocol /\ UNCHANGED << symVars, nebVars, vibVars >>
  \/ Fallback /\ UNCHANGED << symVars, nebVars, vibVars >>
  \/ PostChecks /\ UNCHANGED << symVars, nebVars, vibVars >>
  \/ Persist /\ UNCHANGED << symVars, nebVars, vibVars >>

SpecNeb == InitNeb /\ [][NextNeb]_<< execVars, nebVars >>


(***************************************************************************)
(* vibrations_free_energy.vibration_analysis                               *)
(*                                                                         *)
(* The model follows the eigenvalues: the mass check, the mass weighting   *)
(* of the Hessian, its diagonalisation and the conversion to wavenumbers.  *)
(* The mode shapes, reduced masses and force constants computed from the   *)
(* eigenvectors (lines 110-122) are not held; of that part only the        *)
(* choice of the representation, which can raise, is modelled.             *)
(*                                                                         *)
(* Numbers are integers: a mass in atomic mass units, an inverse square    *)
(* root of a mass in MassScale-ths, an entry of the mass-weighted Hessian  *)
(* and an eigenvalue in MassScale^2-ths, a frequency in hundredths of a    *)
(* wavenumber.  The masses drawn are squares, so that the inverse square   *)
(* roots are exact.  A float that is not a number is NaN or Inf.           *)
(***************************************************************************)
MassScale == 6

\* ase.units._hbar * ase.units.m / sqrt(ase.units._e * ase.units._amu) and
\* ase.units.invcm, both in 1e-7 eV.
UnitConversion == 646541
InvCm == 1240

\* The calls the model draws: two atoms, each with a mass that may be
\* negative or zero, and the Hessian of a harmonic bond of force constant
\* k between them along one Cartesian axis.
VibCalls ==
  { [ masses    |-> masses,
      k         |-> k,
      hess      |-> [ i \in 1..6 |-> [ j \in 1..6 |->
                        IF i = j /\ i \in { axis, axis + 3 } THEN k
                        ELSE IF { i, j } = { axis, axis + 3 } THEN 0 - k
                        ELSE 0 ] ],
      mode_type |-> mode_type ] :
      masses \in [ 1..2 -> { 0 - 4, 0, 1, 4, 9 } ],
      k \in { 0 - 1, 1, 2 }, axis \in 1..3,
      mode_type \in { "direct_eigen_vectors", "mass_weighted_unnormalized",
                      "mass_weighted_normalized", "cartesian" } }

\* A mass weighting by the inverse masses, not their square roots.
MassWeighted_InverseMass(masses, hess) ==
  [ i \in 1..Len(hess) |->
    [ j \in 1..Len(hess) |->
        Num(((MassScale * MassScale) \div
               (masses[((j - 1) \div 3) + 1] * masses[((i - 1) \div 3) + 1]))
            * hess[i][j]) ] ]

\* Lines 59-61: mass_weights = np.repeat(masses**-0.5, 3) and
\* mass_weights * hess * mass_weights[:, np.newaxis].  A negative mass to
\* the power -0.5 is NaN and a zero mass is Inf; NaN times anything is NaN,
\* Inf times zero is NaN.
MassWeighted(masses, hess) ==
  LET weight(i) ==
        LET mass == masses[((i - 1) \div 3) + 1]
        IN  IF mass < 0 THEN NaN
            ELSE IF mass = 0 THEN Inf
            ELSE Num(MassScale \div Isqrt(mass))
      times(x, h, y) ==
        IF x.kind = "nan" \/ y.kind = "nan" THEN NaN
        ELSE IF x.kind = "inf" \/ y.kind = "inf"
             THEN ( IF h = 0 THEN NaN ELSE Inf )
             ELSE Num(x.v * h * y.v)
  IN  [ i \in 1..Len(hess) |->
        [ j \in 1..Len(hess) |-> times(weight(j), hess[i][j], weight(i)) ] ]

\* np.linalg.eigh of a symmetric matrix of numbers whose non-zero
\* off-diagonal entries lie in at most one 2x2 principal block: the
\* eigenvalues in ascending order, computed from the block's trace and
\* discriminant and the rest of the diagonal.
eigh(M) ==
  LET n == Len(M)
      off == { p \in (1..n) \X (1..n) : p[1] < p[2] /\ M[p[1]][p[2]].v # 0 }
      rest(skip) == { i \in 1..n : i \notin skip }
      diagonal(S) == [ i \in S |-> M[i][i].v ]
      RECURSIVE values(_, _)
      values(d, S) ==
        IF S = { } THEN << >>
        ELSE LET i == CHOOSE x \in S : TRUE
             IN  << d[i] >> \o values(d, S \ { i })
  IN  IF off = { }
      THEN Sorted(values(diagonal(1..n), 1..n))
      ELSE LET p == CHOOSE x \in off : TRUE
               a == M[p[1]][p[1]].v
               d == M[p[2]][p[2]].v
               b == M[p[1]][p[2]].v
               r == Isqrt((a - d) * (a - d) + 4 * b * b)
           IN  Sorted(<< RoundDiv(a + d - r, 2), RoundDiv(a + d + r, 2) >>
                      \o values(diagonal(rest({ p[1], p[2] })),
                                rest({ p[1], p[2] })))

\* Lines 103-107 for one eigenvalue: unit_conversion *
\* eigenvalue.astype(complex)**0.5 / invcm, the real and the imaginary part
\* in hundredths of a wavenumber.
Frequency(eig_value) ==
  LET root(x) == RoundDiv(UnitConversion * Isqrt(x * 10000),
                          InvCm * MassScale)
  IN  IF eig_value.kind # "num" THEN [ re |-> NaN, im |-> NaN ]
      ELSE IF eig_value.v >= 0
           THEN [ re |-> Num(root(eig_value.v)), im |-> Num(0) ]
           ELSE [ re |-> Num(0), im |-> Num(root(0 - eig_value.v)) ]

\* Lines 52-57.
Vib_masses ==
  /\ vibpc = "masses"
  /\ IF \E i \in DOMAIN vibcall.masses : vibcall.masses[i] = 0
     THEN /\ vibpc' = "raised"
          /\ vibexc' = "ValueError: Zero mass encountered"
     ELSE /\ vibpc' = "weight"
          /\ vibexc' = vibexc
  /\ UNCHANGED << vibcall, mweight_H, eig_values, frequencies >>

\* Lines 59-61.
Vib_mass_weight ==
  /\ vibpc = "weight"
  /\ mweight_H' = MassWeighted(vibcall.masses, vibcall.hess)
  /\ vibpc' = "eigh"
  /\ UNCHANGED << vibcall, eig_values, frequencies, vibexc >>

\* Line 101.  Of a matrix that holds a NaN, LAPACK either reports no
\* convergence, which numpy raises as LinAlgError, or returns NaN
\* eigenvalues, depending on the build.
Vib_eigh ==
  /\ vibpc = "eigh"
  /\ IF \E i, j \in DOMAIN mweight_H : mweight_H[i][j].kind # "num"
     THEN \/ /\ vibpc' = "raised"
             /\ vibexc' = "LinAlgError: Eigenvalues did not converge"
             /\ eig_values' = eig_values
          \/ /\ vibpc' = "frequencies"
             /\ vibexc' = vibexc
             /\ eig_values' = [ i \in DOMAIN mweight_H |-> NaN ]
     ELSE /\ vibpc' = "frequencies"
          /\ vibexc' = vibexc
          /\ eig_values' = [ i \in DOMAIN mweight_H |->
                               Num(eigh(mweight_H)[i]) ]
  /\ UNCHANGED << vibcall, mweight_H, frequencies >>

\* Lines 103-107.
Vib_frequencies ==
  /\ vibpc = "frequencies"
  /\ frequencies' = [ i \in DOMAIN eig_values |-> Frequency(eig_values[i]) ]
  /\ vibpc' = "modes"
  /\ UNCHANGED << vibcall, mweight_H, eig_values, vibexc >>

\* Lines 125-135: the representation asked for is picked, and the results
\* returned.
Vib_return ==
  /\ vibpc = "modes"
  /\ IF vibcall.mode_type \in { "direct_eigen_vectors",
                                "mass_weighted_unnormalized",
                                "mass_weighted_normalized" }
     THEN /\ vibpc' = "returned"
          /\ vibexc' = vibexc
     ELSE /\ vibpc' = "raised"
          /\ vibexc' = "ValueError: Mode Type requested unknown."
  /\ UNCHANGED << vibcall, mweight_H, eig_values, frequencies >>

InitVib ==
  /\ vibcall \in VibCalls
  /\ mweight_H = None
  /\ eig_values = None
  /\ frequencies = None
  /\ vibpc = "masses"
  /\ vibexc = ""
  /\ call = None
  /\ exec = None
  /\ mol = None
  /\ pc = "idle"
  /\ exc = NoException
  /\ events = << >>
  /\ db = << >>
  /\ now = StartTime
  /\ evaluated = None
  /\ SymIdle
  /\ NebIdle

NextVib ==
  \/ Vib_masses /\ UNCHANGED << execVars, symVars, nebVars >>
  \/ Vib_mass_weight /\ UNCHANGED << execVars, symVars, nebVars >>
  \/ Vib_eigh /\ UNCHANGED << execVars, symVars, nebVars >>
  \/ Vib_frequencies /\ UNCHANGED << execVars, symVars, nebVars >>
  \/ Vib_return /\ UNCHANGED << execVars, symVars, nebVars >>

SpecVib == InitVib /\ [][NextVib]_vibVars


(***************************************************************************)
(* Properties of one construction.                                         *)
(***************************************************************************)
Happened(ev) == \E i \in 1..Len(events) : events[i] = ev

\* Coordinates that are NaN, and coordinates that are not finite.
AnyNan(pos) == \E i \in DOMAIN pos : pos[i] = "nan"
NonFinite(pos) == \E i \in DOMAIN pos : pos[i] \in { "nan", "inf" }

Recorded(err) == \E i \in 1..Len(exec.errors) : exec.errors[i] = err

Constructed == pc = "done"

\* The assembly method of the resolved configuration.
ConfiguredAssembleMethod == exec.parameters.assemble_method

EngineRaised == Happened("engine_raised")

EngineErrorRecorded == Recorded("EngineError") \/ Recorded("OptimizerError")

SentinelOutcome ==
  /\ exec.energy = Some(SentinelEnergy)
  /\ exec.init_energy = Some(SentinelEnergy)
  /\ ~ exec.successful

\* C2 (as stated): whenever the engine raised on the non-force-field path,
\* the construction ends with energy = init_energy = 10000, successful
\* False and the exception in errors.
C2_SentinelAlways ==
  (Constructed /\ EngineRaised) => (SentinelOutcome /\ EngineErrorRecorded)

\* C2 (amended): whenever the engine raised on the non-force-field path,
\* the exception is in errors at the end of construction, and energy =
\* init_energy = 10000 with successful False unless force_generation is set
\* and the force-field fallback succeeded (successful is True only then).
C2_Sentinel ==
  (Constructed /\ EngineRaised)
    => /\ EngineErrorRecorded
       /\ (~ exec.force_generation) => ~ exec.successful
       /\ (~ exec.successful) => SentinelOutcome
       /\ exec.successful =>
            /\ Happened("fallback")
            /\ exec.energy = Some(obmol_energy(evaluated))
            /\ exec.init_energy = exec.energy

C2_Witness ==
  /\ Constructed /\ EngineRaised /\ Happened("relax")
  /\ SentinelOutcome /\ EngineErrorRecorded

\* An engine was built or invoked, or a force-field energy was asked for.
EngineTouched ==
  \/ Happened("select") \/ Happened("relax") \/ Happened("energy")
  \/ Happened("ff_relax") \/ Happened("ff_energy") \/ Happened("fallback")
  \/ mol.calc # None

OnlyMinDistError == exec.errors = << MinDistMessage >>

\* C3 (as stated): for a structure violating the minimum any-pair distance
\* cutoff, a construction with final_sanity_check requested never builds or
\* invokes an engine and ends with the minimum-distance message as the only
\* error.
C3_FinalCheckGates ==
  (call.sep # "bonded" /\ call.final_sanity_check)
    => /\ ~ EngineTouched
       /\ Constructed => OnlyMinDistError

\* C3 (amended): for a structure violating the minimum any-pair distance
\* cutoff the pre-evaluation checks apply (the assembly cutoff for an
\* assembly evaluation, the full one otherwise), a construction in which the
\* initial sanity checks are in effect (init_sanity_check requested or
\* assembly, and assemble_sanity_checks enabled) never builds or invokes an
\* engine and ends with the minimum-distance message as the only error.
C3_InitCheckGates ==
  ( /\ pc \notin { "init", "raised" }
    /\ exec.init_sanity_check /\ exec.parameters.assemble_sanity_checks
    /\ ~ InputSane(call, exec.assembly) )
    => /\ ~ EngineTouched
       /\ Constructed => OnlyMinDistError

C3_Witness ==
  /\ Constructed
  /\ call.init_sanity_check /\ call.final_sanity_check
  /\ exec.parameters.assemble_sanity_checks
  /\ ~ InputSane(call, exec.assembly)
  /\ OnlyMinDistError

\* C4: when the initial sanity checks ran and marked the minimum-distance
\* constraint violated, the pre-evaluation spin assignment, engine
\* selection, evaluation and fallback did not happen, and the construction
\* ends with exactly one error (the 'not evaluated' message), successful
\* False, done False, energy and init_energy unset.
C4_GateSkipsEvaluation ==
  ( /\ Constructed
    /\ Happened("init_check")
    /\ ~ InputSane(call, exec.assembly) )
    => /\ ~ Happened("spin")
       /\ ~ EngineTouched
       /\ Len(exec.errors) = 1 /\ exec.errors[1] = MinDistMessage
       /\ ~ exec.successful
       /\ ~ exec.done
       /\ exec.energy = None /\ exec.init_energy = None

C4_Witness ==
  /\ Constructed /\ Happened("init_check")
  /\ ~ mol.dists_sane
  /\ call.pvals.force_generation /\ Has(call, "force_generation")
  /\ Len(exec.errors) = 1

KnownEngine ==
  \/ (exec.calculator /\ IsCustom(exec.method))
  \/ IsGfn(exec.method)
  \/ IsFF(exec.method)

\* C6: when the resolved method names a known engine, no exception leaves
\* the constructor.
C6_NeverRaises ==
  (exec.calc_time # None /\ KnownEngine) => pc # "raised"

\* The place of an event in the order of calculate().
Rank(ev) ==
  CASE ev = "init_check" -> 1
    [] ev = "spin" -> 1
    [] ev = "select" -> 2
    [] ev \in { "set_constraint", "relax", "energy", "engine_raised",
                "attribute_error", "remove_constraint", "ff_relax",
                "ff_energy", "fallback" } -> 3
    [] ev \in { "final_check", "reset" } -> 4
    [] ev = "db_write" -> 5

\* C7: in every construction the initial sanity checks come before engine
\* selection, engine selection before every relaxation and energy
\* evaluation (the fallback included), these before the final sanity
\* checks, and the final sanity checks before every database write.
C7_FixedOrder ==
  /\ \A i, j \in 1..Len(events) : i < j => Rank(events[i]) <= Rank(events[j])
  /\ \A i, j \in 1..Len(events) :
       (events[i] = "init_check" /\ events[j] = "init_check") => i = j
  /\ \A i, j \in 1..Len(events) :
       (events[i] = "final_check" /\ events[j] = "final_check") => i = j

C7_Witness ==
  /\ Constructed
  /\ Happened("init_check") /\ Happened("select") /\ Happened("energy")
  /\ Happened("final_check") /\ Happened("db_write")

RecognizedOptions ==
  { "assemble_method", "full_method", "override_oxo_opt",
    "calculator_kwargs", "ase_opt_kwargs" }

\* C8: wherever the executor reads assemble_method, full_method,
\* override_oxo_opt, calculator_kwargs or ase_opt_kwargs, the read gives the
\* caller's override or else the library default: no read of them fails,
\* and a method resolved from full_method is the configured full_method.
C8_DefaultsResolved ==
  /\ ~ (exc.type = "AttributeError" /\ exc.attr \in RecognizedOptions)
  /\ ~ Happened("attribute_error")
  /\ ( pc = "calculate" /\ ~ call.assembly /\ ~ call.species_run
       /\ call.pkeys # {} /\ ~ call.ff_preopt_run )
       => exec.method = exec.parameters.full_method

(***************************************************************************)
(* Properties of one call of select_cons.                                  *)
(***************************************************************************)

\* select_cons has returned or raised.
SymFinished == sympc \in { "returned", "raised" }

\* The core sites a ligand claims in a candidate: those paired with its
\* coordinating atoms (a sandwich or haptic ligand pairs each atom with the
\* same list of sites).
ClaimedSites(lig, tligList) ==
  IF IsHaptic(lig) THEN tligList[1][2]
  ELSE List([ i \in 1..Len(tligList) |-> tligList[i][2] ])

\* The core sites all ligands of a candidate claim, ligand after ligand.
CandidateSites(tligLists, ligs) ==
  Concat(List([ j \in 1..Len(tligLists) |->
                  ClaimedSites(ligs[j], tligLists[j]) ]))

\* C9: in every candidate assignment select_cons returns, the core sites
\* claimed by all ligands together repeat no site index, and there are as
\* many of them as the core template has sites.
C9_SitesDisjointAndComplete ==
  sympc = "returned" =>
    \A k \in DOMAIN out_liglists :
      /\ ~HasRepeat(CandidateSites(out_liglists[k], newLigInputDicts))
      /\ Len(CandidateSites(out_liglists[k], newLigInputDicts))
           = geo_cn_dict[symcall.coreType]

\* Two candidates are returned for ligands of several kinds, after the
\* repeated ligands were compacted and mapped back.
C9_Witness ==
  /\ sympc = "returned"
  /\ good
  /\ Len(out_liglists) >= 2
  /\ inverse.inverse_needed
  /\ Len(newLigInputDicts) = 4

\* A ligand with one coordinating atom that may take any site of the core.
UnconstrainedMonodentate(lig, ps) ==
  /\ Len(lig.coordList) = 1
  /\ lig.pinned = << >>
  /\ lig.possible_core_cons = None
  /\ ~(lig.smiles = "[O-2]" /\ ps.force_trans_oxos)

\* The call gives as many ligands as the core has sites, all the same
\* unconstrained monodentate.
IdenticalMonodentates ==
  /\ Len(symcall.ligInputDicts) = geo_cn_dict[symcall.coreType]
  /\ \A i \in DOMAIN symcall.ligInputDicts :
       /\ symcall.ligInputDicts[i] = symcall.ligInputDicts[1]
       /\ UnconstrainedMonodentate(symcall.ligInputDicts[i], symcall.params)
  /\ symcall.params.n_symmetries >= 1

\* C10: given a core template with CN sites and CN identical unconstrained
\* monodentate ligands, with n_symmetries >= 1, select_cons returns exactly
\* one candidate assignment and a good flag.
C10_OneCandidate ==
  (SymFinished /\ IdenticalMonodentates) =>
    /\ sympc = "returned"
    /\ Len(out_liglists) = 1
    /\ good

\* The spec's case: four identical monodentates on the square-planar core,
\* returned as one candidate out of the 24 placements enumerated.
C10_Witness ==
  /\ sympc = "returned"
  /\ IdenticalMonodentates
  /\ symcall.coreType = "square_planar"
  /\ Len(symcall.ligInputDicts) = 4
  /\ inverse.inverse_needed
  /\ Len(out_liglists) = 1
  /\ good

\* The sites the ligands of the call ask for: the coordinating atoms of each
\* ligand, every sandwich or haptic ligand counted as three.
EffectiveSiteCount ==
  SumSeq(List([ i \in 1..Len(symcall.ligInputDicts) |->
                  IF IsHaptic(symcall.ligInputDicts[i]) THEN 3
                  ELSE Len(symcall.ligInputDicts[i].coordList) ]))

OverCoordinatedRaised ==
  sympc = "raised" /\ symexc = "ValueError: over-coordinated"

\* C11: select_cons raises the over-coordination error, before any pattern
\* is resolved or any placement enumerated, whenever the ligands ask for
\* more sites than the core has, and does not raise it otherwise.
C11_OverCoordination ==
  sympc # "fill" =>
    IF EffectiveSiteCount > geo_cn_dict[symcall.coreType]
    THEN /\ OverCoordinatedRaised
         /\ selected_con_lists = << >>
         /\ good_combos = << >>
    ELSE ~ OverCoordinatedRaised

\* Two sandwich ligands, six sites, were refused on a smaller core.
C11_Witness ==
  /\ OverCoordinatedRaised
  /\ Cardinality({ i \in DOMAIN symcall.ligInputDicts :
                     IsHaptic(symcall.ligInputDicts[i]) }) = 2
  /\ EffectiveSiteCount = 6

\* Pattern resolution found a ligand the core has no pattern for.
AnyUnmappable == \E i \in DOMAIN goods : ~ goods[i]

\* select_cons returned no candidate and a flag that is not good.
ReturnedEmpty == sympc = "returned" /\ out_liglists = << >> /\ ~ good

\* The recursive search was run on the compacted patterns and ended without
\* a complete assignment.
SearchFoundNone ==
  /\ \/ sympc = "returned"
     \/ symexc \in { AxisError, "IndexError: list index out of range",
                     "ValueError: cannot reshape array" }
  /\ goods # << >>
  /\ ~ AnyUnmappable
  /\ generate_good_combos(selected_con_lists, 1, << >>,
                          geo_cn_dict[symcall.coreType])
       = [ raised |-> "", leaf |-> FALSE, kids |-> << >> ]

\* C12: when a ligand cannot be mapped to the core (also when that ligand
\* appears more than once), or when the search finds no complete
\* assignment, select_cons does not raise: it returns no candidate and a
\* flag that is not good.
C12_SilentFailure ==
  (SymFinished /\ (AnyUnmappable \/ SearchFoundNone)) => ReturnedEmpty

(***************************************************************************)
(* Properties of one call of NEB_setup.                                    *)
(***************************************************************************)
ChainBuilt == nebpc \in { "interpolate", "loop", "executor", "raised",
                          "returned" }

\* C13: once the chain is built, and in the path NEB_setup returns, the
\* first image has the geometry of the initial structure and the last
\* image that of the aligned final structure; the same holds for the
\* evaluated images.  Interpolation and the single-point evaluations
\* change interior images only.
C13_EndpointsKept ==
  /\ ChainBuilt =>
       /\ images[1] = nebcall.initial
       /\ images[Len(images)] = neb_align(nebcall.initial, nebcall.final)
  /\ neb_images # << >> => neb_images[1] = nebcall.initial
  /\ ( neb_images # << >> /\ Len(neb_images) = Len(images) ) =>
       neb_images[Len(neb_images)]
         = neb_align(nebcall.initial, nebcall.final)

\* A path of four images is returned, its interior images interpolated.
C13_Witness ==
  /\ nebpc = "returned"
  /\ Len(images) = 4
  /\ images[2] = Geometry("interior")
  /\ images[3] = Geometry("interior")
  /\ images[1] # images[4]

EnergyEvents(evs) ==
  Cardinality({ i \in 1..Len(evs) : evs[i] \in { "energy", "ff_energy" } })

RelaxEvents(evs) ==
  Cardinality({ i \in 1..Len(evs) :
                  evs[i] \in { "relax", "ff_relax", "fallback" } })

\* Every image of the returned path went through one CalcExecutor, as a
\* single point with relaxation off.
EachEvaluatedOnce ==
  /\ Len(runs) = Len(images)
  /\ \A k \in 1..Len(runs) :
       /\ ~ runs[k].relax
       /\ EnergyEvents(runs[k].events) = 1
       /\ RelaxEvents(runs[k].events) = 0

\* C14: for every requested image count nimages of at least two, the path
\* NEB_setup returns holds exactly nimages images, both endpoints
\* included, each evaluated exactly once through CalcExecutor as a single
\* point with relaxation off.
C14_ImageCountFromTwo ==
  ( nebpc = "returned" /\ nebcall.nimages >= 2 ) =>
    /\ Len(images) = nebcall.nimages
    /\ EachEvaluatedOnce

\* Three images were asked for and returned, one of them by the force
\* field.
C14_Witness ==
  /\ nebpc = "returned"
  /\ nebcall.nimages = 3
  /\ Len(images) = 3
  /\ Len(runs) = 3
  /\ nebcall.neb_method = "UFF"

\* C14 as stated, for every requested image count.
C14_ImageCount ==
  nebpc = "returned" =>
    /\ Len(images) = nebcall.nimages
    /\ EachEvaluatedOnce

(***************************************************************************)
(* Properties of one call of vibration_analysis.                           *)
(***************************************************************************)
SomeMassNotPositive ==
  \E i \in DOMAIN vibcall.masses : vibcall.masses[i] <= 0

ZeroMassRaised ==
  vibpc = "raised" /\ vibexc = "ValueError: Zero mass encountered"

\* C15: once the mass check has run, the call has raised the input error,
\* with no mass weighting done, whenever some atom's mass is zero or
\* negative, and has not raised it when every mass is strictly positive.
C15_NonPositiveMassRaises ==
  vibpc # "masses" =>
    IF SomeMassNotPositive
    THEN ZeroMassRaised /\ mweight_H = None
    ELSE ~ ZeroMassRaised

\* (1/(2*pi*c)) * sqrt(k/mu) in hundredths of a wavenumber, for k in
\* eV/Angstrom^2 and masses in atomic mass units.  The square root of
\* eV/Angstrom^2/amu is sqrt(e/amu) * 1e10 = 9.82269e13 per second, and
\* 2*pi*c = 1.8837e11 cm per second; both are halved here to stay within
\* 32 bits.
ExpectedFrequency(k, m1, m2) ==
  RoundDiv(491135 * Isqrt((k * (m1 + m2) * 360000) \div (m1 * m2)),
           942 * 6)

\* Within one part in a thousand.
Close(x, y) ==
  IF x >= y THEN 1000 * (x - y) <= y ELSE 1000 * (y - x) <= y

NonTrivial == { i \in DOMAIN eig_values : eig_values[i].v # 0 }

\* C16: for two atoms of positive masses bound by a harmonic force
\* constant k > 0, the computed spectrum has exactly one non-zero
\* eigenvalue among its six; its frequency is real and equals
\* (1/(2*pi*c)) * sqrt(k/mu) in wavenumbers within tolerance, and the
\* other five frequencies are zero.
C16_DiatomicFrequency ==
  ( frequencies # None /\ ~ SomeMassNotPositive /\ vibcall.k > 0 ) =>
    /\ Len(frequencies) = 6
    /\ Cardinality(NonTrivial) = 1
    /\ \A i \in DOMAIN frequencies :
         /\ frequencies[i].im = Num(0)
         /\ frequencies[i].re.kind = "num"
         /\ IF i \in NonTrivial
            THEN Close(frequencies[i].re.v,
                       ExpectedFrequency(vibcall.k, vibcall.masses[1],
                                         vibcall.masses[2]))
            ELSE frequencies[i].re.v = 0

\* A bond of force constant 2 between atoms of masses 1 and 9 was analysed
\* and the results returned.
C16_Witness ==
  /\ vibpc = "returned"
  /\ vibcall.k = 2
  /\ vibcall.masses = << 1, 9 >>
  /\ frequencies[6].re.v > 0

(***************************************************************************)
(* Properties of the engine selection, the fallback, the persistence and   *)
(* the constraint of one construction.                                     *)
(***************************************************************************)
\* The semiempirical engine was selected for an assembly evaluation of a
\* structure whose engine-specific charge is more than 1 off its formal
\* charge.
AssemblyMismatchOnGfn ==
  /\ pc \in { "engine_protocol", "fallback", "post", "persist", "done" }
  /\ exec.assembly
  /\ mol.mismatch
  /\ mol.calc # None
  /\ Val(mol.calc).kind = "XTB"

\* C17: for an assembly evaluation on the gfn path with a charge mismatch
\* of more than 1, the resolved method is 'GFN-FF', the engine object that
\* evaluates the energy is configured with GFN-FF, and the charge and
\* unpaired-electron vectors are all zero.
C17_AssemblyDowngrade ==
  AssemblyMismatchOnGfn =>
    /\ exec.method = "GFN-FF"
    /\ Val(mol.calc).method = "GFN-FF"
    /\ mol.charges = "zeros"

FallbackAttempted == events' = Append(events, "fallback")

\* C18: the force-field single-point fallback is attempted at most once in
\* a construction, only with force_generation set and never when the gate
\* skipped evaluation; it is attempted only once the primary protocol has
\* finished with successful False.  When it succeeds, successful is True
\* and energy and init_energy are the force-field energy; when it fails,
\* its exception is appended to errors; in both cases nothing is raised.
C18_FallbackOnce ==
  /\ [] ( /\ Cardinality({ i \in 1..Len(events) : events[i] = "fallback" })
               <= 1
          /\ Happened("fallback") =>
               ( exec.force_generation /\ Happened("select") ) )
  /\ [] [ FallbackAttempted =>
            /\ pc = "fallback"
            /\ ~ exec.successful
            /\ exec.force_generation
            /\ pc' = "post"
            /\ exc' = NoException
            /\ \/ /\ exec'.successful
                  /\ exec'.energy = Some(obmol_energy(mol.positions))
                  /\ exec'.init_energy = exec'.energy
                  /\ exec'.errors = exec.errors
               \/ /\ ~ exec'.successful
                  /\ exec'.energy = exec.energy
                  /\ exec'.init_energy = exec.init_energy
                  /\ exec'.errors = Append(exec.errors, "FFError") ]_execVars

\* The engine raised, the fallback ran and succeeded.
C18_Witness ==
  /\ Constructed
  /\ Happened("engine_raised")
  /\ Happened("fallback")
  /\ exec.successful
  /\ exec.energy = Some(obmol_energy(mol.positions))

TrajectoryCaptured ==
  exec.parameters.save_trajectories /\ exec.trajectory # None

\* The frames of the captured trajectory, in order, each with its step
\* index, the last one tagged relaxed.
FramesWritten ==
  /\ Len(db) = Val(exec.trajectory)
  /\ \A i \in 1..Len(db) :
       db[i] = [ what |-> "frame", geo_step |-> Some(i - 1),
                 relaxed |-> (i = Len(db)) ]

FinalWritten ==
  db = << [ what |-> "final", geo_step |-> None, relaxed |-> exec.relax ] >>

DumpAsked ==
  exec.parameters.dump_ase_atoms /\ mol.calc # None /\ ~ exec.assembly

\* C19: at the end of construction, if save_trajectories is enabled and a
\* trajectory was captured, the database holds every trajectory step in
\* order with its step index, all but the last tagged relaxed=False and the
\* last relaxed=True; otherwise, if save_trajectories is not enabled,
\* dump_ase_atoms is set, an engine object is attached and this is not an
\* assembly evaluation, it holds exactly one write of the final structure
\* tagged with the relax flag; in every other case, save_trajectories
\* enabled without a captured trajectory included, nothing is written.
C19_Persistence ==
  Constructed =>
    IF TrajectoryCaptured THEN FramesWritten
    ELSE IF ( ~ exec.parameters.save_trajectories ) /\ DumpAsked
         THEN FinalWritten
         ELSE db = << >>

\* A trajectory of at least two frames was written.
C19_Witness ==
  /\ Constructed
  /\ TrajectoryCaptured
  /\ Len(db) >= 2
  /\ ~ db[1].relaxed
  /\ db[Len(db)].relaxed

\* C19 as stated: the final structure is written whenever no trajectory
\* was written and the dump is asked for.
C19_PersistenceAsStated ==
  Constructed =>
    IF TrajectoryCaptured THEN FramesWritten
    ELSE IF DumpAsked THEN FinalWritten
         ELSE db = << >>

\* The position of the first event ev in the history, 0 when there is none.
FirstOf(ev) ==
  IF Happened(ev)
  THEN CHOOSE i \in 1..Len(events) :
         events[i] = ev /\ \A j \in 1..(i - 1) : events[j] # ev
  ELSE 0

\* A relaxation ran on the selected engine, not the custom one, with the
\* freeze-first-component option set.
FrozenRelaxation ==
  /\ Happened("relax")
  /\ exec.parameters.freeze_molecule_add_species
  /\ ~ IsCustom(exec.method)

\* C20: when a relaxation runs on a non-force-field, non-custom engine
\* with the freeze-first-component option set, the constraint is set
\* before the optimization starts and removed only after it has ended,
\* with or without an exception, and from then on, the end of
\* construction included, the structure carries no constraint.
C20_ConstraintScoped ==
  FrozenRelaxation =>
    /\ Happened("set_constraint")
    /\ Happened("remove_constraint")
    /\ FirstOf("set_constraint") < FirstOf("relax")
    /\ FirstOf("relax") < FirstOf("remove_constraint")
    /\ \A i \in 1..Len(events) :
         events[i] \in { "engine_raised", "attribute_error" } =>
           i < FirstOf("remove_constraint")
    /\ ~ mol.constraint

\* The optimization raised under the constraint, and construction ended.
C20_Witness ==
  /\ Constructed
  /\ FrozenRelaxation
  /\ Happened("set_constraint")
  /\ Happened("engine_raised")
  /\ Happened("remove_constraint")
  /\ ~ mol.constraint

EffectiveSites(lig) == IF IsHaptic(lig) THEN 3 ELSE Len(lig.coordList)

\* The sites the input ligands leave unoccupied.
UnoccupiedSites == geo_cn_dict[symcall.coreType] - EffectiveSiteCount

\* C21: after Step 1, when n > 0 sites are unoccupied, the ligand list is
\* the input followed by floor(n / p) copies of the primary filler (p its
\* site count) and by secondary fillers that cover the remainder, so that
\* the effective site counts of all the ligands sum to the coordination
\* number, whatever the site counts of the two fillers.
C21_FillersExact ==
  ( sympc = "resolve" /\ UnoccupiedSites > 0 ) =>
    LET p == EffectiveSites(symcall.params.fill_ligand)
        first == Len(symcall.ligInputDicts)
        copies == UnoccupiedSites \div p
    IN  /\ Len(newLigInputDicts) >= first + copies
        /\ \A i \in 1..first : newLigInputDicts[i] = symcall.ligInputDicts[i]
        /\ \A i \in (first + 1)..(first + copies) :
             newLigInputDicts[i] = symcall.params.fill_ligand
        /\ \A i \in (first + copies + 1)..Len(newLigInputDicts) :
             newLigInputDicts[i] = symcall.params.secondary_fill_ligand
        /\ SumSeq(List([ i \in 1..Len(newLigInputDicts) |->
                           EffectiveSites(newLigInputDicts[i]) ]))
             = geo_cn_dict[symcall.coreType]

\* The step of select_cons that compacts the repeated ligands.
CompactionStep ==
  /\ sympc = "order"
  /\ sympc' = "enumerate"
  /\ inverse'.inverse_needed

\* The ligands (in the new order) of the k-th distinct descriptor.
GroupOf(k) == { i \in DOMAIN inverse'.inv_inds : inverse'.inv_inds[i][1] = k }

\* The site patterns that were compacted for the k-th distinct descriptor:
\* those of its first ligand, as they were before the step.
RowsBefore(k) ==
  selected_con_lists[Reverse(Argsort(denticities))
                       [CHOOSE i \in GroupOf(k) : \A j \in GroupOf(k) : i <= j]]

\* The per-ligand rows that inv_map_highdent_to_repeat gives back for the
\* ligands of the k-th descriptor when its compacted row is row.
InvertedRows(k, row) ==
  inv_map_highdent_to_repeat(
    [ q \in 1..Len(selected_con_lists') |-> row ],
    inverse'.inv_dicts,
    SelectSeq(inverse'.inv_inds, LAMBDA item : item[1] = k))

\* C22: the compaction of a group of N identical ligands is invertible: a
\* compacted row without a repeated site, made of an N-combination of the
\* site patterns, is mapped back by the recorded reverse map to exactly the
\* N rows of that combination, whatever the denticity.
C22_CompactionInvertible ==
  [][ CompactionStep =>
        \A k \in DOMAIN inverse'.inv_dicts :
          inverse'.inv_dicts[k].isdict =>
            \A c \in Range(Combinations(RowsBefore(k), Cardinality(GroupOf(k)))) :
              ~ HasRepeat(Concat(c)) =>
                InvertedRows(k, Sorted(Concat(c))) = c ]_symVars

\* The same for the groups of monodentate ligands only.
C22_MonodentateInvertible ==
  [][ CompactionStep =>
        \A k \in DOMAIN inverse'.inv_dicts :
          ( /\ inverse'.inv_dicts[k].isdict
            /\ \A r \in Range(RowsBefore(k)) : Len(r) = 1 ) =>
            \A c \in Range(Combinations(RowsBefore(k), Cardinality(GroupOf(k)))) :
              ~ HasRepeat(Concat(c)) =>
                InvertedRows(k, Sorted(Concat(c))) = c ]_symVars

\* The assignments select_cons scored, per ligand, in their order.
ScoredAssignments ==
  List([ i \in 1..Len(Take(good_combos, MaxScored)) |->
           PerLigand(good_combos[i], denticities, inverse) ])

\* Their rounded scores.
ScoresOf(combos) ==
  List([ i \in 1..Len(combos) |->
           Score(combos[i], newLigInputDicts, geometry_dict[symcall.coreType]) ])

\* The first assignment enumerated with the score e.
FirstWith(scores, e) ==
  CHOOSE i \in DOMAIN scores :
    /\ scores[i] = e
    /\ \A j \in 1..(i - 1) : scores[j] # e \/ e.kind = "nan"

\* a is a lower score than b.
Lower(a, b) ==
  \/ a.kind = "num" /\ b.kind = "num" /\ a.v < b.v
  \/ a.kind = "num" /\ b.kind # "num"
  \/ a.kind = "inf" /\ b.kind = "nan"

\* The candidate that is returned for an assignment.
CandidateOf(combo) ==
  List([ j \in 1..Len(combo) |-> LigList(newLigInputDicts[j], combo[j]) ])

Scored == sympc = "returned" /\ good_combos # << >>

\* The returned candidates are those of the assignments at the places idx.
ReturnedAre(combos, scores, idx) ==
  /\ Len(out_liglists) = Len(idx)
  /\ \A k \in DOMAIN idx :
       /\ out_liglists[k] = CandidateOf(combos[idx[k]])
       /\ idx[k] = FirstWith(scores, scores[idx[k]])
  /\ \A k \in 1..(Len(idx) - 1) : Lower(scores[idx[k]], scores[idx[k + 1]])

\* The places of the lowest n distinct scores, each at its first assignment.
LowestDistinct(scores, n) ==
  LET firsts == { i \in DOMAIN scores : i = FirstWith(scores, scores[i]) }
      Place(i) == 1 + Cardinality({ j \in firsts : Lower(scores[j], scores[i]) })
  IN  List([ k \in 1..(IF n < Cardinality(firsts) THEN n
                       ELSE Cardinality(firsts)) |->
               CHOOSE i \in firsts : Place(i) = k ])

\* C23: the candidates select_cons returns have pairwise distinct rounded
\* scores and come in ascending order of score; they are as many as
\* n_symmetries allows, at most one per distinct rounded score of the scored
\* assignments, and the candidate of a score is the first assignment
\* enumerated with it.
C23_DistinctAscending ==
  Scored =>
    ReturnedAre(ScoredAssignments, ScoresOf(ScoredAssignments),
                LowestDistinct(ScoresOf(ScoredAssignments),
                               symcall.params.n_symmetries))

\* Two assignments were scored alike and n_symmetries allows two candidates.
C23_Witness ==
  /\ Scored
  /\ symcall.params.n_symmetries = 2
  /\ Len(out_liglists) = 2
  /\ \E i, j \in DOMAIN good_combos :
       i < j /\ ScoresOf(ScoredAssignments)[i] = ScoresOf(ScoredAssignments)[j]

\* The ways to pick one row of its pattern list for every (pseudo-)ligand.
Picks(lists) ==
  { f \in [ DOMAIN lists -> 1..6 ] : \A j \in DOMAIN lists : f[j] <= Len(lists[j]) }

\* The rows a pick takes, ligand after ligand.
Picked(lists, f) == List([ j \in 1..Len(lists) |-> lists[j][f[j]] ])

\* The assignments with one admissible row per (pseudo-)ligand, the rows
\* pairwise disjoint.
DisjointAssignments(lists) ==
  { Picked(lists, f) : f \in { g \in Picks(lists) :
                                 ~ HasRepeat(Concat(Picked(lists, g))) } }

\* The step that enumerates, for (pseudo-)ligands whose denticities sum to
\* the coordination number.
EnumerationStep ==
  /\ sympc = "enumerate"
  /\ sympc' # "enumerate"
  /\ \A i \in DOMAIN goods : goods[i]
  /\ SumSeq(denticities) = geo_cn_dict[symcall.coreType]

\* The enumeration ended without an exception and yielded exactly the
\* assignments expected, each once.
YieldedExactly(expected) ==
  /\ sympc' # "raised"
  /\ IF expected = {} THEN ~ good' /\ sympc' = "returned"
     ELSE /\ sympc' = "score"
          /\ Len(good_combos') = Cardinality(expected)
          /\ Range(good_combos') = { Concat(a) : a \in expected }

\* C24: when the denticities of the (pseudo-)ligands sum to the coordination
\* number, generate_good_combos ends and, flattened, yields exactly the
\* assignments that pick one admissible row per (pseudo-)ligand with
\* pairwise disjoint rows: none of them is missing, none is yielded twice,
\* and nothing else is yielded.
C24_CompleteEnumeration ==
  [][ EnumerationStep =>
        YieldedExactly(DisjointAssignments(selected_con_lists)) ]_symVars

\* The same, for pattern lists that are not empty and repeat no row.
C24_CompleteOnProperLists ==
  [][ ( /\ EnumerationStep
        /\ \A j \in DOMAIN selected_con_lists :
             /\ selected_con_lists[j] # << >>
             /\ ~ HasRepeat(selected_con_lists[j]) ) =>
        YieldedExactly(DisjointAssignments(selected_con_lists)) ]_symVars

\* The step that ends the evaluation (io_calc.py 367-377), at the time now.
EvaluationEnds == pc = "fallback" /\ pc' # "fallback"

\* C25: whenever evaluation was attempted, calc_time at the end of the
\* construction is the time at the end of the evaluation minus the time the
\* construction started, on the engine and on the force-field paths, after a
\* relaxation and after a single point, successful or failed.
C25_ElapsedTime ==
  [][ /\ EvaluationEnds => exec'.calc_time = Some(now - StartTime)
      /\ ( pc \in { "post", "persist" } /\ exec.done ) =>
           exec'.calc_time = exec.calc_time ]_execVars

\* The same for the evaluations whose protocol did not itself take the
\* time: the force-field paths and the successful engine single point.
C25_ElapsedWhenTakenOnce ==
  [][ ( /\ EvaluationEnds
        /\ ~ Happened("relax")
        /\ ~ Happened("engine_raised") ) =>
        exec'.calc_time = Some(now - StartTime) ]_execVars

\* C26: with force_generation off, at the end of the construction the success
\* flag and the error list agree on every path: successful implies that no
\* error was recorded, and not successful after an attempted evaluation
\* implies that an error was recorded.
C26_FlagAndErrorsAgree ==
  ( Constructed /\ ~ exec.force_generation ) =>
    /\ exec.successful => exec.errors = << >>
    /\ ( ~ exec.successful /\ exec.done ) => exec.errors # << >>

\* The same, with the first half only off the force-field relaxation.
C26_AgreeOffFFRelaxation ==
  ( Constructed /\ ~ exec.force_generation ) =>
    /\ ( exec.successful /\ ~ Happened("ff_relax") ) => exec.errors = << >>
    /\ ( ~ exec.successful /\ exec.done ) => exec.errors # << >>

====
